---------------------------- MODULE Spec2Model ----------------------------
(***************************************************************************)
(* Xiangqi rules engine (chess_logic.py): the ChessBoard object, its FEN   *)
(* loader, the move legality rules, make_move / undo_move and the three    *)
(* histories they keep.                                                    *)
(*                                                                         *)
(* Python strings are sequences of one-character strings.  A method that   *)
(* mutates the board and returns a value is an operator that yields the    *)
(* record [self |-> the board afterwards, ret |-> the value returned].     *)
(***************************************************************************)
EXTENDS Integers, Sequences, FiniteSets, TLC

VARIABLES
    board,              \* self.board[rank][file]
    current_side,       \* self.current_side
    move_history,       \* self.move_history
    position_history,   \* self.position_history
    check_history,      \* self.check_history
    halfmove_clock,     \* self.halfmove_clock
    fullmove_number,    \* self.fullmove_number
    lastOp,             \* the method called last
    ret,                \* what it returned
    redo_stack,         \* MainWindow.redo_stack, the moves undone, last undone on top
    engine_info_label,  \* the text of MainWindow.engine_info_label
    _candidate_moves,   \* UCIEngine._candidate_moves of the last search
    bestmove,           \* the move the engine sent last with bestmove_signal
    is_ready,           \* UCIEngine.is_ready
    is_thinking,        \* UCIEngine.is_thinking
    _current_depth,     \* UCIEngine._current_depth
    reported,           \* the info lines _parse_output has handled since go() was called last
    process,            \* UCIEngine.process: "None" or "Popen"
    stdin,              \* the commands written to the engine's input that it has not read yet
    stdout,             \* the lines the engine has written that the reader thread has not read yet
    searching,          \* whether the engine process is in a search
    signals,            \* the signals emitted and not yet dispatched in the main thread
    edit_mode,          \* BoardWidget.edit_mode
    edit_piece,         \* BoardWidget.edit_piece
    red_first,          \* whether BoardEditorDialog.red_first is checked
    _saved_board,       \* MainWindow._saved_board
    _saved_side,        \* MainWindow._saved_side
    opened,             \* the ChessBoard as it was when the board editor was opened last
    settings,           \* MainWindow.settings: red_player and black_player
    on_bestmove,        \* UCIEngine.on_bestmove: the name of the handler
    _realtime_original_on_bestmove,  \* the handler _try_start_realtime_analysis saved, "unset" before
    _suppress_engine_turn,
    hint_mode,
    showing_hint_result,
    _analysis_mode,
    _realtime_analysis_enabled,
    _realtime_analysis_active,
    _realtime_pending,  \* the move indices of MainWindow._realtime_pending
    _realtime_move_index,
    interaction_enabled,  \* BoardWidget.interaction_enabled
    edited_position,
    timers,             \* the handlers QTimer.singleShot will call
    asked               \* what each search that has not been answered to the window was started for

\* The fields of the window and of the engine
\* The fields of the engine besides its candidate list, and its output
search == <<is_ready, is_thinking, _current_depth, reported>>

\* What the handlers of the game window leave alone
\* The engine process, its two pipes and the queued signals
pipes == <<process, stdin, stdout, searching, signals>>

\* The board editor
editor == <<edit_mode, edit_piece, red_first, _saved_board, _saved_side, opened>>

\* The flags of the window, the handlers set and the timers
session == <<settings, on_bestmove, _realtime_original_on_bestmove, _suppress_engine_turn,
             hint_mode, showing_hint_result, _analysis_mode, _realtime_analysis_enabled,
             _realtime_analysis_active, _realtime_pending, _realtime_move_index,
             interaction_enabled, edited_position, timers, asked>>

others == <<search, pipes, editor, session>>

\* The window and the engine without the board editor
window_but_editor ==
    <<redo_stack, engine_info_label, _candidate_moves, bestmove, search, pipes, session>>

window == <<redo_stack, engine_info_label, _candidate_moves, bestmove, others>>

vars == <<board, current_side, move_history, position_history, check_history,
          halfmove_clock, fullmove_number, lastOp, ret,
          redo_stack, engine_info_label, _candidate_moves, bestmove, others>>

-----------------------------------------------------------------------------
(* Characters and Python's str / int primitives                            *)

\* The printable ASCII characters, code 32 first (the double quote, the
\* backslash and the backtick, which no input here contains, are spelled out).
AsciiChars == <<" ", "!", "QUOTE", "#", "$", "%", "&", "'", "(", ")", "*", "+", ",", "-", ".", "/", "0", "1", "2", "3", "4", "5", "6", "7", "8", "9", ":", ";", "<", "=", ">", "?", "@", "A", "B", "C", "D", "E", "F", "G", "H", "I", "J", "K", "L", "M", "N", "O", "P", "Q", "R", "S", "T", "U", "V", "W", "X", "Y", "Z", "[", "BACKSLASH", "]", "^", "_", "BACKTICK", "a", "b", "c", "d", "e", "f", "g", "h", "i", "j", "k", "l", "m", "n", "o", "p", "q", "r", "s", "t", "u", "v", "w", "x", "y", "z", "{", "|", "}", "~">>

OrdTable == [c \in {AsciiChars[i] : i \in 1..Len(AsciiChars)} |->
                31 + CHOOSE i \in 1..Len(AsciiChars) : AsciiChars[i] = c]

ord(c) == OrdTable[c]

chr(n) == AsciiChars[n - 31]

isdigit(c) == ord(c) >= 48 /\ ord(c) <= 57

isupper(c) == ord(c) >= 65 /\ ord(c) <= 90

lower(c) == IF isupper(c) THEN chr(ord(c) + 32) ELSE c

upper(c) == IF ord(c) >= 97 /\ ord(c) <= 122 THEN chr(ord(c) - 32) ELSE c

\* str(n) for 0 <= n
RECURSIVE str(_)
str(n) == IF n < 10 THEN <<chr(48 + n)>> ELSE str(n \div 10) \o <<chr(48 + (n % 10))>>

\* Python's None, where a Piece is expected and where a tuple or a string is
None == [type |-> "None", side |-> "None"]

NoneSeq == <<>>

RECURSIVE digits_value(_, _)
digits_value(s, acc) ==
    IF s = <<>> THEN acc ELSE digits_value(Tail(s), 10 * acc + (ord(Head(s)) - 48))

unsigned(s) == IF s # <<>> /\ Head(s) \in {"+", "-"} THEN Tail(s) ELSE s

\* int(s) raises ValueError unless s is an optional sign and decimal digits
int_raises(s) == unsigned(s) = <<>> \/ \E i \in 1..Len(unsigned(s)) : ~isdigit(unsigned(s)[i])

int(s) == IF Head(s) = "-" THEN 0 - digits_value(unsigned(s), 0)
          ELSE digits_value(unsigned(s), 0)

\* s.split(sep) for a one-character separator: the fields between its occurrences
split_on(s, sep) ==
    LET at == {i \in 1..Len(s) : s[i] = sep}
        n == Cardinality(at)
        pos(k) == IF k = 0 THEN 0
                  ELSE IF k = n + 1 THEN Len(s) + 1
                  ELSE CHOOSE i \in at : Cardinality({j \in at : j < i}) = k - 1
    IN [k \in 1..(n + 1) |-> SubSeq(s, pos(k - 1) + 1, pos(k) - 1)]

\* The concatenation of ss[lo], ..., ss[hi]
RECURSIVE concat(_, _, _)
concat(ss, lo, hi) ==
    IF lo > hi THEN <<>>
    ELSE IF lo = hi THEN ss[lo]
    ELSE concat(ss, lo, (lo + hi) \div 2) \o concat(ss, ((lo + hi) \div 2) + 1, hi)

\* s.split(): split on runs of blanks, no empty fields
split(s) == SelectSeq(split_on(s, " "), LAMBDA p : p # <<>>)

-----------------------------------------------------------------------------
(* Piece model                                                             *)

KING == "k"
ADVISOR == "a"
BISHOP == "b"
ROOK == "r"
KNIGHT == "n"
CANNON == "c"
PAWN == "p"

PieceType == <<KING, ADVISOR, BISHOP, ROOK, KNIGHT, CANNON, PAWN>>

RED == "RED"
BLACK == "BLACK"

Piece(type, side) == [type |-> type, side |-> side]

to_char(piece) == IF piece.side = RED THEN upper(piece.type) ELSE piece.type

from_char(char) ==
    IF isdigit(char) THEN None
    ELSE LET side == IF isupper(char) THEN RED ELSE BLACK
             char_lower == lower(char)
         IN IF \E i \in 1..Len(PieceType) : PieceType[i] = char_lower
            THEN Piece(char_lower, side)
            ELSE None

STARTING_FEN == <<"r", "n", "b", "a", "k", "a", "b", "n", "r", "/", "9", "/", "1", "c", "5", "c", "1", "/", "p", "1", "p", "1", "p", "1", "p", "1", "p", "/", "9", "/", "9", "/", "P", "1", "P", "1", "P", "1", "P", "1", "P", "/", "1", "C", "5", "C", "1", "/", "9", "/", "R", "N", "B", "A", "K", "A", "B", "N", "R", " ", "w", " ", "-", " ", "-", " ", "0", " ", "1">>

-----------------------------------------------------------------------------
(* Board state                                                             *)

FILES == 9
RANKS == 10

EmptyGrid == [rank \in 0..(RANKS - 1) |-> [file \in 0..(FILES - 1) |-> None]]

\* One rank string of a FEN placement, read left to right into row
RECURSIVE load_rank(_, _, _)
load_rank(rank_str, file_idx, row) ==
    IF rank_str = <<>> THEN row
    ELSE LET char == Head(rank_str)
         IN IF isdigit(char)
            THEN load_rank(Tail(rank_str), file_idx + (ord(char) - 48), row)
            ELSE LET piece == from_char(char)
                 IN load_rank(Tail(rank_str), file_idx + 1,
                              IF piece # None /\ file_idx < FILES
                              THEN [row EXCEPT ![file_idx] = piece]
                              ELSE row)

\* A placement that is not ten ranks leaves the board as it was
load_fen_untouched_on_failure(self, fen) ==
    LET parts == split(fen)
    IN IF Len(parts) < 1 \/ Len(split_on(parts[1], "/")) # RANKS
       THEN [self |-> self, ret |-> FALSE]
       ELSE
       LET ranks == split_on(parts[1], "/")
           grid == [real_rank \in 0..(RANKS - 1) |->
                       load_rank(ranks[RANKS - real_rank], 0, EmptyGrid[real_rank])]
           side == IF Len(parts) >= 2
                   THEN (IF parts[2] = <<"w">> THEN RED ELSE BLACK)
                   ELSE self.current_side
           half == IF Len(parts) >= 5 /\ ~int_raises(parts[5])
                   THEN int(parts[5]) ELSE self.halfmove_clock
           full == IF Len(parts) >= 6 /\ ~int_raises(parts[6])
                   THEN int(parts[6]) ELSE self.fullmove_number
       IN [self |-> [self EXCEPT !.board = grid,
                                 !.move_history = <<>>,
                                 !.position_history = <<>>,
                                 !.check_history = <<>>,
                                 !.current_side = side,
                                 !.halfmove_clock = half,
                                 !.fullmove_number = full],
           ret |-> TRUE]

load_fen(self, fen) ==
    LET parts == split(fen)
    IN IF Len(parts) < 1 THEN [self |-> self, ret |-> FALSE]
       ELSE
       LET cleared == [self EXCEPT !.board = EmptyGrid,
                                   !.move_history = <<>>,
                                   !.position_history = <<>>,
                                   !.check_history = <<>>]
           ranks == split_on(parts[1], "/")
       IN IF Len(ranks) # RANKS THEN [self |-> cleared, ret |-> FALSE]
          ELSE
          LET grid == [real_rank \in 0..(RANKS - 1) |->
                          load_rank(ranks[RANKS - real_rank], 0, EmptyGrid[real_rank])]
              side == IF Len(parts) >= 2
                      THEN (IF parts[2] = <<"w">> THEN RED ELSE BLACK)
                      ELSE self.current_side
              half == IF Len(parts) >= 5 /\ ~int_raises(parts[5])
                      THEN int(parts[5]) ELSE self.halfmove_clock
              full == IF Len(parts) >= 6 /\ ~int_raises(parts[6])
                      THEN int(parts[6]) ELSE self.fullmove_number
          IN [self |-> [cleared EXCEPT !.board = grid,
                                       !.current_side = side,
                                       !.halfmove_clock = half,
                                       !.fullmove_number = full],
              ret |-> TRUE]

\* ChessBoard(): the fields as __init__ sets them, then load_fen(STARTING_FEN)
ChessBoard ==
    load_fen([board |-> EmptyGrid, current_side |-> RED, move_history |-> <<>>,
              position_history |-> <<>>, check_history |-> <<>>,
              halfmove_clock |-> 0, fullmove_number |-> 1], STARTING_FEN).self

get_piece(self, file, rank) ==
    IF 0 <= file /\ file < FILES /\ 0 <= rank /\ rank < RANKS
    THEN self.board[rank][file]
    ELSE None

\* self.copy(): a deep copy, except that position_history starts empty
copy(self) == [self EXCEPT !.position_history = <<>>]

\* "a".."i" and "0".."9" to coordinates; None when the text is not a move
parse_move(move) ==
    IF Len(move) < 4 THEN NoneSeq
    ELSE IF ~isdigit(move[2]) \/ ~isdigit(move[4]) THEN NoneSeq
    ELSE LET from_file == ord(move[1]) - ord("a")
             from_rank == ord(move[2]) - 48
             to_file == ord(move[3]) - ord("a")
             to_rank == ord(move[4]) - 48
         IN IF ~(0 <= from_file /\ from_file < 9 /\ 0 <= from_rank /\ from_rank < 10 /\
                 0 <= to_file /\ to_file < 9 /\ 0 <= to_rank /\ to_rank < 10)
            THEN NoneSeq
            ELSE <<from_file, from_rank, to_file, to_rank>>

format_move(from_file, from_rank, to_file, to_rank) ==
    <<chr(ord("a") + from_file)>> \o str(from_rank) \o
    <<chr(ord("a") + to_file)>> \o str(to_rank)

-----------------------------------------------------------------------------
(* Move legality engine                                                    *)

abs(n) == IF n < 0 THEN 0 - n ELSE n

\* The palace has its three ranks and every file
_in_palace_any_file(file, rank, side) ==
    IF side = RED THEN 0 <= rank /\ rank <= 2
    ELSE 7 <= rank /\ rank <= 9

_in_palace(file, rank, side) ==
    IF ~(3 <= file /\ file <= 5) THEN FALSE
    ELSE IF side = RED THEN 0 <= rank /\ rank <= 2
    ELSE 7 <= rank /\ rank <= 9

_on_own_side(rank, side) == IF side = RED THEN rank <= 4 ELSE rank >= 5

\* range(start, end) of the squares strictly between the two ends of a line
between(a, b) == IF a < b THEN (a + 1)..(b - 1) ELSE (b + 1)..(a - 1)

_path_clear(self, ff, fr, tf, tr) ==
    IF ff = tf
    THEN \A rank \in between(fr, tr) : get_piece(self, ff, rank) = None
    ELSE \A file \in between(ff, tf) : get_piece(self, file, fr) = None

_count_pieces_between(self, ff, fr, tf, tr) ==
    IF ff = tf
    THEN Cardinality({rank \in between(fr, tr) : get_piece(self, ff, rank) # None})
    ELSE Cardinality({file \in between(ff, tf) : get_piece(self, file, fr) # None})

_is_valid_piece_move(self, piece, ff, fr, tf, tr) ==
    LET df == tf - ff
        dr == tr - fr
        adf == abs(df)
        adr == abs(dr)
    IN CASE piece.type = KING ->
              IF ~_in_palace(tf, tr, piece.side) THEN FALSE
              ELSE (adf = 1 /\ adr = 0) \/ (adf = 0 /\ adr = 1)
         [] piece.type = ADVISOR ->
              IF ~_in_palace(tf, tr, piece.side) THEN FALSE
              ELSE adf = 1 /\ adr = 1
         [] piece.type = BISHOP ->
              IF ~_on_own_side(tr, piece.side) THEN FALSE
              ELSE IF adf # 2 \/ adr # 2 THEN FALSE
              ELSE get_piece(self, ff + (df \div 2), fr + (dr \div 2)) = None
         [] piece.type = ROOK ->
              IF df # 0 /\ dr # 0 THEN FALSE
              ELSE _path_clear(self, ff, fr, tf, tr)
         [] piece.type = KNIGHT ->
              IF ~((adf = 1 /\ adr = 2) \/ (adf = 2 /\ adr = 1)) THEN FALSE
              ELSE IF adf = 2
                   THEN get_piece(self, ff + (df \div 2), fr) = None
                   ELSE get_piece(self, ff, fr + (dr \div 2)) = None
         [] piece.type = CANNON ->
              IF df # 0 /\ dr # 0 THEN FALSE
              ELSE IF get_piece(self, tf, tr) = None
                   THEN _count_pieces_between(self, ff, fr, tf, tr) = 0
                   ELSE _count_pieces_between(self, ff, fr, tf, tr) = 1
         [] piece.type = PAWN ->
              IF piece.side = RED
              THEN (dr = 1 /\ df = 0) \/ (dr = 0 /\ adf = 1 /\ fr >= 5)
              ELSE (dr = -1 /\ df = 0) \/ (dr = 0 /\ adf = 1 /\ fr <= 4)
         [] OTHER -> FALSE

\* The squares in the order the code scans them: rank by rank, file by file
Squares == {<<file, rank>> : file \in 0..(FILES - 1), rank \in 0..(RANKS - 1)}

scan_index(sq) == sq[2] * FILES + sq[1]

\* The squares of S in scan order
scan_order(S) ==
    [k \in 1..Cardinality(S) |->
        CHOOSE sq \in S : Cardinality({o \in S : scan_index(o) < scan_index(sq)}) = k - 1]

\* (file, rank) of the first General of the side in scan order, or None
_find_king(self, side) ==
    LET kings == {sq \in Squares : self.board[sq[2]][sq[1]] = Piece(KING, side)}
    IN IF kings = {} THEN NoneSeq
       ELSE CHOOSE sq \in kings : \A other \in kings : scan_index(sq) <= scan_index(other)

\* The scan between the Generals starts on the lower General's own square
_kings_face_each_other_from_min(self) ==
    LET red_king == _find_king(self, RED)
        black_king == _find_king(self, BLACK)
        min_rank == IF red_king[2] < black_king[2] THEN red_king[2] ELSE black_king[2]
        max_rank == IF red_king[2] < black_king[2] THEN black_king[2] ELSE red_king[2]
    IN IF red_king = NoneSeq \/ black_king = NoneSeq THEN FALSE
       ELSE IF red_king[1] # black_king[1] THEN FALSE
       ELSE \A rank \in min_rank..(max_rank - 1) :
                get_piece(self, red_king[1], rank) = None

_kings_face_each_other(self) ==
    LET red_king == _find_king(self, RED)
        black_king == _find_king(self, BLACK)
    IN IF red_king = NoneSeq \/ black_king = NoneSeq THEN FALSE
       ELSE IF red_king[1] # black_king[1] THEN FALSE
       ELSE \A rank \in between(red_king[2], black_king[2]) :
                get_piece(self, red_king[1], rank) = None

other_side(side) == IF side = RED THEN BLACK ELSE RED

\* The scan tests the pieces of the General's own side
_is_king_in_check_own_side(self, side) ==
    LET king_pos == _find_king(self, side)
    IN IF king_pos = NoneSeq THEN TRUE
       ELSE \E sq \in Squares :
               LET piece == self.board[sq[2]][sq[1]]
               IN /\ piece # None
                  /\ piece.side = side
                  /\ _is_valid_piece_move(self, piece, sq[1], sq[2], king_pos[1], king_pos[2])
                  /\ (piece.type = CANNON =>
                        _count_pieces_between(self, sq[1], sq[2], king_pos[1], king_pos[2]) = 1)

\* A side without a General is not taken to be in check
_is_king_in_check_absent_is_safe(self, side) ==
    LET king_pos == _find_king(self, side)
    IN IF king_pos = NoneSeq THEN FALSE
       ELSE \E sq \in Squares :
               LET piece == self.board[sq[2]][sq[1]]
               IN /\ piece # None
                  /\ piece.side = other_side(side)
                  /\ _is_valid_piece_move(self, piece, sq[1], sq[2], king_pos[1], king_pos[2])
                  /\ (piece.type = CANNON =>
                        _count_pieces_between(self, sq[1], sq[2], king_pos[1], king_pos[2]) = 1)

\* A Cannon counts as checking only along a clear line
_is_king_in_check_cannon_clear(self, side) ==
    LET king_pos == _find_king(self, side)
    IN IF king_pos = NoneSeq THEN TRUE
       ELSE \E sq \in Squares :
               LET piece == self.board[sq[2]][sq[1]]
               IN /\ piece # None
                  /\ piece.side = other_side(side)
                  /\ _is_valid_piece_move(self, piece, sq[1], sq[2], king_pos[1], king_pos[2])
                  /\ (piece.type = CANNON =>
                        _count_pieces_between(self, sq[1], sq[2], king_pos[1], king_pos[2]) = 0)

_is_king_in_check(self, side) ==
    LET king_pos == _find_king(self, side)
    IN IF king_pos = NoneSeq THEN TRUE
       ELSE \E sq \in Squares :
               LET piece == self.board[sq[2]][sq[1]]
               IN /\ piece # None
                  /\ piece.side = other_side(side)
                  /\ _is_valid_piece_move(self, piece, sq[1], sq[2], king_pos[1], king_pos[2])
                  /\ (piece.type = CANNON =>
                        _count_pieces_between(self, sq[1], sq[2], king_pos[1], king_pos[2]) = 1)

_get_position_key_without_side(self) ==
    LET pieces == scan_order({sq \in Squares : self.board[sq[2]][sq[1]] # None})
        key_parts == [k \in 1..Len(pieces) |->
                         str(pieces[k][1]) \o str(pieces[k][2]) \o
                         <<to_char(self.board[pieces[k][2]][pieces[k][1]])>> \o <<"|">>]
    IN concat(key_parts, 1, Len(key_parts))

\* "<file><rank><char>" of every piece in scan order, then "w" or "b", joined by "|"
_get_position_key(self) ==
    LET pieces == scan_order({sq \in Squares : self.board[sq[2]][sq[1]] # None})
        key_parts == [k \in 1..Len(pieces) |->
                         str(pieces[k][1]) \o str(pieces[k][2]) \o
                         <<to_char(self.board[pieces[k][2]][pieces[k][1]])>> \o <<"|">>]
    IN concat(key_parts, 1, Len(key_parts)) \o
       <<IF self.current_side = RED THEN "w" ELSE "b">>

\* Entry i (0-based) of check_history counts for Red at even i, for Black at odd i
_is_perpetual_check(self, test_board, checking_side) ==
    LET new_key == _get_position_key(test_board)
        check_count ==
            Cardinality({i \in 0..(Len(self.check_history) - 1) :
                /\ self.check_history[i + 1][1] = new_key
                /\ self.check_history[i + 1][2]
                /\ IF checking_side = RED THEN i % 2 = 0 ELSE i % 2 = 1})
    IN check_count >= 2

\* The third occurrence of any position is refused, check or not
is_valid_move_no_repeat(self, from_file, from_rank, to_file, to_rank) ==
    LET piece == get_piece(self, from_file, from_rank)
        target == get_piece(self, to_file, to_rank)
    IN IF piece = None \/ piece.side # self.current_side THEN FALSE
       ELSE IF target # None /\ target.side = piece.side THEN FALSE
       ELSE IF ~_is_valid_piece_move(self, piece, from_file, from_rank, to_file, to_rank)
            THEN FALSE
       ELSE
       LET test_board == [copy(self) EXCEPT !.board[to_rank][to_file] = piece,
                                            !.board[from_rank][from_file] = None]
           enemy_side == other_side(piece.side)
           new_key == _get_position_key([test_board EXCEPT !.current_side = enemy_side])
       IN IF _is_king_in_check(test_board, piece.side) THEN FALSE
          ELSE IF _kings_face_each_other(test_board) THEN FALSE
          ELSE Cardinality({i \in 1..Len(self.check_history) :
                   self.check_history[i][1] = new_key}) < 2

\* For coordinates on the board, as parse_move and the enumerations give them
is_valid_move(self, from_file, from_rank, to_file, to_rank) ==
    LET piece == get_piece(self, from_file, from_rank)
        target == get_piece(self, to_file, to_rank)
    IN IF piece = None \/ piece.side # self.current_side THEN FALSE
       ELSE IF target # None /\ target.side = piece.side THEN FALSE
       ELSE IF ~_is_valid_piece_move(self, piece, from_file, from_rank, to_file, to_rank)
            THEN FALSE
       ELSE
       LET test_board == [copy(self) EXCEPT !.board[to_rank][to_file] = piece,
                                            !.board[from_rank][from_file] = None]
           enemy_side == other_side(piece.side)
       IN IF _is_king_in_check(test_board, piece.side) THEN FALSE
          ELSE IF _kings_face_each_other(test_board) THEN FALSE
          ELSE IF _is_king_in_check(test_board, enemy_side)
               THEN ~_is_perpetual_check(
                        self, [test_board EXCEPT !.current_side = enemy_side], piece.side)
               ELSE TRUE

get_legal_moves(self, from_file, from_rank) ==
    {<<tf, tr>> \in Squares : is_valid_move(self, from_file, from_rank, tf, tr)}

from_files == <<"a", "b", "c", "d", "e", "f", "g", "h", "i">>

\* Both loops run over range(FILES), so that the last rank is never a candidate
scan_lines_files_twice(f1, r1) ==
    SelectSeq([i \in 1..FILES |-> <<i - 1, r1>>], LAMBDA t : t[1] # f1) \o
    SelectSeq([i \in 1..FILES |-> <<f1, i - 1>>], LAMBDA t : t[2] # r1)

\* The candidates of a Chariot or Cannon: its rank, then its file
scan_lines(f1, r1) ==
    SelectSeq([i \in 1..FILES |-> <<i - 1, r1>>], LAMBDA t : t[1] # f1) \o
    SelectSeq([i \in 1..RANKS |-> <<f1, i - 1>>], LAMBDA t : t[2] # r1)

\* The candidate destinations get_all_legal_moves generates for the piece on (f1, r1)
targets(self, piece, f1, r1) ==
    LET steps(deltas) == [i \in 1..Len(deltas) |-> <<f1 + deltas[i][1], r1 + deltas[i][2]>>]
    IN CASE piece.type = KING -> steps(<<<<0, 1>>, <<0, -1>>, <<1, 0>>, <<-1, 0>>>>)
         [] piece.type = ADVISOR -> steps(<<<<1, 1>>, <<1, -1>>, <<-1, 1>>, <<-1, -1>>>>)
         [] piece.type = BISHOP -> steps(<<<<2, 2>>, <<2, -2>>, <<-2, 2>>, <<-2, -2>>>>)
         [] piece.type = KNIGHT ->
              steps(<<<<1, 2>>, <<1, -2>>, <<-1, 2>>, <<-1, -2>>,
                      <<2, 1>>, <<2, -1>>, <<-2, 1>>, <<-2, -1>>>>)
         [] piece.type = ROOK \/ piece.type = CANNON -> scan_lines(f1, r1)
         [] piece.type = PAWN ->
              LET dr == IF self.current_side = RED THEN 1 ELSE -1
                  is_crossed == (self.current_side = RED /\ r1 > 4) \/
                                (self.current_side = BLACK /\ r1 < 5)
              IN <<<<f1, r1 + dr>>>> \o
                 (IF is_crossed THEN <<<<f1 + 1, r1>>, <<f1 - 1, r1>>>> ELSE <<>>)
         [] OTHER -> <<>>

\* The moves of the piece on (f1, r1), in the order of its candidate destinations
moves_from(self, f1, r1) ==
    LET piece == self.board[r1][f1]
        valid == SelectSeq(targets(self, piece, f1, r1),
                     LAMBDA t : /\ 0 <= t[1] /\ t[1] < FILES /\ 0 <= t[2] /\ t[2] < RANKS
                                /\ is_valid_move(self, f1, r1, t[1], t[2]))
    IN [i \in 1..Len(valid) |->
           <<from_files[f1 + 1]>> \o str(r1) \o <<from_files[valid[i][1] + 1]>> \o str(valid[i][2])]

get_all_legal_moves(self) ==
    LET own == scan_order({sq \in Squares :
                   /\ self.board[sq[2]][sq[1]] # None
                   /\ self.board[sq[2]][sq[1]].side = self.current_side})
        moves == [k \in 1..Len(own) |-> moves_from(self, own[k][1], own[k][2])]
    IN concat(moves, 1, Len(moves))

-----------------------------------------------------------------------------
(* Move application and history                                            *)

\* The snapshot for undo is pushed before the move is validated
make_move_snapshot_first(self, move) ==
    LET coords == parse_move(move)
        saved == [self EXCEPT !.position_history = Append(self.position_history, self.board)]
    IN IF coords = NoneSeq THEN [self |-> self, ret |-> FALSE]
       ELSE
       LET ff == coords[1]
           fr == coords[2]
           tf == coords[3]
           tr == coords[4]
       IN IF ~is_valid_move(self, ff, fr, tf, tr) THEN [self |-> saved, ret |-> FALSE]
          ELSE
          LET piece == self.board[fr][ff]
              captured == self.board[tr][tf]
              reset == captured # None \/ piece.type = PAWN
              moved == [saved EXCEPT
                  !.board[tr][tf] = piece,
                  !.board[fr][ff] = None,
                  !.move_history = Append(self.move_history, move),
                  !.halfmove_clock = IF reset THEN 0 ELSE self.halfmove_clock + 1,
                  !.check_history = IF reset THEN <<>> ELSE self.check_history,
                  !.fullmove_number = IF self.current_side = BLACK
                                      THEN self.fullmove_number + 1
                                      ELSE self.fullmove_number,
                  !.current_side = other_side(self.current_side)]
              pos_key == _get_position_key(moved)
              is_check == _is_king_in_check(moved, moved.current_side)
          IN [self |-> [moved EXCEPT
                  !.check_history = Append(moved.check_history, <<pos_key, is_check>>)],
              ret |-> TRUE]

\* The side to move is not switched after the move
make_move_no_flip(self, move) ==
    LET coords == parse_move(move)
    IN IF coords = NoneSeq THEN [self |-> self, ret |-> FALSE]
       ELSE
       LET ff == coords[1]
           fr == coords[2]
           tf == coords[3]
           tr == coords[4]
       IN IF ~is_valid_move(self, ff, fr, tf, tr) THEN [self |-> self, ret |-> FALSE]
          ELSE
          LET piece == self.board[fr][ff]
              captured == self.board[tr][tf]
              reset == captured # None \/ piece.type = PAWN
              moved == [self EXCEPT
                  !.position_history = Append(self.position_history, self.board),
                  !.board[tr][tf] = piece,
                  !.board[fr][ff] = None,
                  !.move_history = Append(self.move_history, move),
                  !.halfmove_clock = IF reset THEN 0 ELSE self.halfmove_clock + 1,
                  !.check_history = IF reset THEN <<>> ELSE self.check_history,
                  !.fullmove_number = IF self.current_side = BLACK
                                      THEN self.fullmove_number + 1
                                      ELSE self.fullmove_number]
              pos_key == _get_position_key(moved)
              is_check == _is_king_in_check(moved, moved.current_side)
          IN [self |-> [moved EXCEPT
                  !.check_history = Append(moved.check_history, <<pos_key, is_check>>)],
              ret |-> TRUE]

\* check_history is not cleared by a capture or a Soldier move
make_move_keeps_checks(self, move) ==
    LET coords == parse_move(move)
    IN IF coords = NoneSeq THEN [self |-> self, ret |-> FALSE]
       ELSE
       LET ff == coords[1]
           fr == coords[2]
           tf == coords[3]
           tr == coords[4]
       IN IF ~is_valid_move(self, ff, fr, tf, tr) THEN [self |-> self, ret |-> FALSE]
          ELSE
          LET piece == self.board[fr][ff]
              captured == self.board[tr][tf]
              reset == captured # None \/ piece.type = PAWN
              moved == [self EXCEPT
                  !.position_history = Append(self.position_history, self.board),
                  !.board[tr][tf] = piece,
                  !.board[fr][ff] = None,
                  !.move_history = Append(self.move_history, move),
                  !.halfmove_clock = IF reset THEN 0 ELSE self.halfmove_clock + 1,
                  !.fullmove_number = IF self.current_side = BLACK
                                      THEN self.fullmove_number + 1
                                      ELSE self.fullmove_number,
                  !.current_side = other_side(self.current_side)]
              pos_key == _get_position_key(moved)
              is_check == _is_king_in_check(moved, moved.current_side)
          IN [self |-> [moved EXCEPT
                  !.check_history = Append(moved.check_history, <<pos_key, is_check>>)],
              ret |-> TRUE]

make_move(self, move) ==
    LET coords == parse_move(move)
    IN IF coords = NoneSeq THEN [self |-> self, ret |-> FALSE]
       ELSE
       LET ff == coords[1]
           fr == coords[2]
           tf == coords[3]
           tr == coords[4]
       IN IF ~is_valid_move(self, ff, fr, tf, tr) THEN [self |-> self, ret |-> FALSE]
          ELSE
          LET piece == self.board[fr][ff]
              captured == self.board[tr][tf]
              reset == captured # None \/ piece.type = PAWN
              moved == [self EXCEPT
                  !.position_history = Append(self.position_history, self.board),
                  !.board[tr][tf] = piece,
                  !.board[fr][ff] = None,
                  !.move_history = Append(self.move_history, move),
                  !.halfmove_clock = IF reset THEN 0 ELSE self.halfmove_clock + 1,
                  !.check_history = IF reset THEN <<>> ELSE self.check_history,
                  !.fullmove_number = IF self.current_side = BLACK
                                      THEN self.fullmove_number + 1
                                      ELSE self.fullmove_number,
                  !.current_side = other_side(self.current_side)]
              pos_key == _get_position_key(moved)
              is_check == _is_king_in_check(moved, moved.current_side)
          IN [self |-> [moved EXCEPT
                  !.check_history = Append(moved.check_history, <<pos_key, is_check>>)],
              ret |-> TRUE]

\* The entry the undone move left on check_history stays there
undo_move_keeps_check_entry(self) ==
    IF self.move_history = <<>> \/ self.position_history = <<>>
    THEN [self |-> self, ret |-> NoneSeq]
    ELSE LET n == Len(self.position_history)
             m == Len(self.move_history)
             side == other_side(self.current_side)
         IN [self |-> [self EXCEPT
                 !.board = self.position_history[n],
                 !.position_history = SubSeq(self.position_history, 1, n - 1),
                 !.move_history = SubSeq(self.move_history, 1, m - 1),
                 !.current_side = side,
                 !.fullmove_number = IF side = BLACK
                                     THEN self.fullmove_number - 1
                                     ELSE self.fullmove_number],
             ret |-> self.move_history[m]]

\* The last snapshot is read but left on position_history
undo_move_keeps_snapshot(self) ==
    IF self.move_history = <<>> \/ self.position_history = <<>>
    THEN [self |-> self, ret |-> NoneSeq]
    ELSE LET n == Len(self.position_history)
             m == Len(self.move_history)
             side == other_side(self.current_side)
         IN [self |-> [self EXCEPT
                 !.board = self.position_history[n],
                 !.move_history = SubSeq(self.move_history, 1, m - 1),
                 !.check_history = IF self.check_history # <<>>
                                   THEN SubSeq(self.check_history, 1,
                                               Len(self.check_history) - 1)
                                   ELSE self.check_history,
                 !.current_side = side,
                 !.fullmove_number = IF side = BLACK
                                     THEN self.fullmove_number - 1
                                     ELSE self.fullmove_number],
             ret |-> self.move_history[m]]

undo_move(self) ==
    IF self.move_history = <<>> \/ self.position_history = <<>>
    THEN [self |-> self, ret |-> NoneSeq]
    ELSE LET n == Len(self.position_history)
             m == Len(self.move_history)
             side == other_side(self.current_side)
         IN [self |-> [self EXCEPT
                 !.board = self.position_history[n],
                 !.position_history = SubSeq(self.position_history, 1, n - 1),
                 !.move_history = SubSeq(self.move_history, 1, m - 1),
                 !.check_history = IF self.check_history # <<>>
                                   THEN SubSeq(self.check_history, 1,
                                               Len(self.check_history) - 1)
                                   ELSE self.check_history,
                 !.current_side = side,
                 !.fullmove_number = IF side = BLACK
                                     THEN self.fullmove_number - 1
                                     ELSE self.fullmove_number],
             ret |-> self.move_history[m]]

-----------------------------------------------------------------------------
(* Position text                                                           *)

\* sep.join(ss)
join(ss, sep) ==
    concat([i \in 1..(2 * Len(ss) - 1) |-> IF i % 2 = 1 THEN ss[(i + 1) \div 2] ELSE sep],
           1, 2 * Len(ss) - 1)

\* The text of one rank from the given file on, after empty_count empty squares
RECURSIVE fen_rank(_, _, _)
fen_rank(row, file, empty_count) ==
    IF file = FILES
    THEN IF empty_count > 0 THEN str(empty_count) ELSE <<>>
    ELSE IF row[file] = None
    THEN fen_rank(row, file + 1, empty_count + 1)
    ELSE (IF empty_count > 0 THEN str(empty_count) ELSE <<>>)
         \o <<to_char(row[file])>> \o fen_rank(row, file + 1, 0)

\* The ranks are written from rank 0 up
to_fen_bottom_first(self) ==
    join(<<join([i \in 1..RANKS |-> fen_rank(self.board[i - 1], 0, 0)], <<"/">>),
           IF self.current_side = RED THEN <<"w">> ELSE <<"b">>,
           <<"-">>, <<"-">>,
           str(self.halfmove_clock), str(self.fullmove_number)>>, <<" ">>)

to_fen(self) ==
    join(<<join([i \in 1..RANKS |-> fen_rank(self.board[RANKS - i], 0, 0)], <<"/">>),
           IF self.current_side = RED THEN <<"w">> ELSE <<"b">>,
           <<"-">>, <<"-">>,
           str(self.halfmove_clock), str(self.fullmove_number)>>, <<" ">>)

-----------------------------------------------------------------------------
(* Draws and game end                                                      *)

\* The threshold is passed only after 120 half-moves
\* Some piece of the side to move has a legal move
has_legal_move(self) ==
    \E sq \in Squares :
        /\ self.board[sq[2]][sq[1]] # None
        /\ self.board[sq[2]][sq[1]].side = self.current_side
        /\ get_legal_moves(self, sq[1], sq[2]) # {}

is_checkmate(self) ==
    IF ~_is_king_in_check(self, self.current_side) THEN FALSE
    ELSE ~has_legal_move(self)

\* The test for check is left out
is_stalemate_ignores_check(self) == ~has_legal_move(self)

is_stalemate(self) ==
    IF _is_king_in_check(self, self.current_side) THEN FALSE
    ELSE ~has_legal_move(self)

\* Two occurrences of the position are taken for a repetition
is_threefold_repetition_at_two(self) ==
    IF Len(self.check_history) < 5 THEN FALSE
    ELSE Cardinality({i \in 1..Len(self.check_history) :
             self.check_history[i][1] = _get_position_key(self)}) >= 2

is_threefold_repetition(self) ==
    IF Len(self.check_history) < 5 THEN FALSE
    ELSE Cardinality({i \in 1..Len(self.check_history) :
             self.check_history[i][1] = _get_position_key(self)}) >= 3

is_sixty_move_rule_after_120(self) == self.halfmove_clock > 120

is_sixty_move_rule(self) == self.halfmove_clock >= 120

-----------------------------------------------------------------------------
(* Move notation.  Each Chinese character of the source is one element of   *)
(* the text, written here by its reading: shuai/jiang General, shi Advisor, *)
(* xiang Elephant, che Chariot, ma Horse, pao Cannon, bing/zu Soldier (the  *)
(* Red and the Black name of a piece are different characters), yi..jiu the *)
(* numerals one to nine, qian front, hou back, jin forward, tui backward,   *)
(* ping sideways.                                                           *)

to_chinese(piece) ==
    LET red == piece.side = RED
    IN CASE piece.type = KING -> IF red THEN "shuai" ELSE "jiang"
         [] piece.type = ADVISOR -> IF red THEN "shi_red" ELSE "shi_black"
         [] piece.type = BISHOP -> IF red THEN "xiang_red" ELSE "xiang_black"
         [] piece.type = ROOK -> IF red THEN "che_red" ELSE "che_black"
         [] piece.type = KNIGHT -> IF red THEN "ma_red" ELSE "ma_black"
         [] piece.type = CANNON -> IF red THEN "pao_red" ELSE "pao_black"
         [] piece.type = PAWN -> IF red THEN "bing" ELSE "zu"

RED_NUMS == <<"yi", "er", "san", "si", "wu", "liu", "qi", "ba", "jiu">>

BLACK_NUMS == <<"1", "2", "3", "4", "5", "6", "7", "8", "9">>

\* text.strip(): the text without the blanks at its ends
strip(text) ==
    LET inked == {i \in 1..Len(text) : text[i] # " "}
    IN IF inked = {} THEN <<>>
       ELSE SubSeq(text, CHOOSE i \in inked : \A j \in inked : i <= j,
                         CHOOSE i \in inked : \A j \in inked : i >= j)

\* The numeral of a piece between the front and the back counts from the back
move_to_chinese_from_back(self, move) ==
    LET coords == parse_move(move)
    IN IF coords = NoneSeq THEN move
       ELSE
       LET ff == coords[1]
           fr == coords[2]
           tf == coords[3]
           tr == coords[4]
           piece == get_piece(self, ff, fr)
       IN IF piece = None THEN move
          ELSE
          LET is_red == piece.side = RED
              nums == IF is_red THEN RED_NUMS ELSE BLACK_NUMS
              from_num == IF is_red THEN nums[(8 - ff) + 1] ELSE nums[ff + 1]
              to_num == IF is_red THEN nums[(8 - tf) + 1] ELSE nums[tf + 1]
              piece_name == to_chinese(piece)
              same_type_on_file ==
                  {rank \in 0..(RANKS - 1) :
                      LET p == get_piece(self, ff, rank)
                      IN p # None /\ p.type = piece.type /\ p.side = piece.side}
              count == Cardinality(same_type_on_file)
              first == CHOOSE r \in same_type_on_file : \A q \in same_type_on_file : r <= q
              last == CHOOSE r \in same_type_on_file : \A q \in same_type_on_file : r >= q
              idx == Cardinality({r \in same_type_on_file : r < fr})
              prefix ==
                  IF count >= 2
                  THEN IF is_red
                       THEN IF fr = last THEN <<"qian">>
                            ELSE IF fr = first THEN <<"hou">>
                            ELSE <<nums[idx + 1]>>
                       ELSE IF fr = first THEN <<"qian">>
                            ELSE IF fr = last THEN <<"hou">>
                            ELSE <<nums[(count - 1 - idx) + 1]>>
                  ELSE <<>>
              dr == tr - fr
              action == IF dr = 0 THEN "ping"
                        ELSE IF is_red THEN (IF dr > 0 THEN "jin" ELSE "tui")
                        ELSE (IF dr < 0 THEN "jin" ELSE "tui")
              target == IF dr = 0 THEN to_num
                        ELSE IF piece.type \in {ROOK, CANNON, PAWN, KING}
                        THEN nums[(abs(dr) - 1) + 1]
                        ELSE to_num
          IN IF prefix # <<>>
             THEN prefix \o <<piece_name, action, target>>
             ELSE <<piece_name, from_num, action, target>>

\* The result for the board itself (board_before left out); nums[k] of the
\* source is nums[k + 1] here
move_to_chinese(self, move) ==
    LET coords == parse_move(move)
    IN IF coords = NoneSeq THEN move
       ELSE
       LET ff == coords[1]
           fr == coords[2]
           tf == coords[3]
           tr == coords[4]
           piece == get_piece(self, ff, fr)
       IN IF piece = None THEN move
          ELSE
          LET is_red == piece.side = RED
              nums == IF is_red THEN RED_NUMS ELSE BLACK_NUMS
              from_num == IF is_red THEN nums[(8 - ff) + 1] ELSE nums[ff + 1]
              to_num == IF is_red THEN nums[(8 - tf) + 1] ELSE nums[tf + 1]
              piece_name == to_chinese(piece)
              same_type_on_file ==
                  {rank \in 0..(RANKS - 1) :
                      LET p == get_piece(self, ff, rank)
                      IN p # None /\ p.type = piece.type /\ p.side = piece.side}
              count == Cardinality(same_type_on_file)
              first == CHOOSE r \in same_type_on_file : \A q \in same_type_on_file : r <= q
              last == CHOOSE r \in same_type_on_file : \A q \in same_type_on_file : r >= q
              idx == Cardinality({r \in same_type_on_file : r < fr})
              prefix ==
                  IF count >= 2
                  THEN IF is_red
                       THEN IF fr = last THEN <<"qian">>
                            ELSE IF fr = first THEN <<"hou">>
                            ELSE <<nums[(count - 1 - idx) + 1]>>
                       ELSE IF fr = first THEN <<"qian">>
                            ELSE IF fr = last THEN <<"hou">>
                            ELSE <<nums[idx + 1]>>
                  ELSE <<>>
              dr == tr - fr
              action == IF dr = 0 THEN "ping"
                        ELSE IF is_red THEN (IF dr > 0 THEN "jin" ELSE "tui")
                        ELSE (IF dr < 0 THEN "jin" ELSE "tui")
              target == IF dr = 0 THEN to_num
                        ELSE IF piece.type \in {ROOK, CANNON, PAWN, KING}
                        THEN nums[(abs(dr) - 1) + 1]
                        ELSE to_num
          IN IF prefix # <<>>
             THEN prefix \o <<piece_name, action, target>>
             ELSE <<piece_name, from_num, action, target>>

\* The first legal move whose text is the given one
chinese_to_move(self, text) ==
    LET legal_moves == get_all_legal_moves(self)
        stripped == strip(text)
        hits == {i \in 1..Len(legal_moves) : move_to_chinese(self, legal_moves[i]) = stripped}
    IN IF hits = {} THEN NoneSeq
       ELSE legal_moves[CHOOSE i \in hits : \A j \in hits : i <= j]

move_to_iccs(self, move) ==
    IF Len(move) = 4
    THEN <<upper(move[1]), move[2], "-", upper(move[3]), move[4]>>
    ELSE move

iccs_to_move_unchecked(self, text) ==
    IF text = <<>> THEN NoneSeq
    ELSE LET dashless == SelectSeq(text, LAMBDA c : c # "-")
             clean_text == [i \in 1..Len(dashless) |-> lower(dashless[i])]
         IN IF Len(clean_text) = 4 THEN clean_text ELSE NoneSeq

iccs_to_move(self, text) ==
    IF text = <<>> THEN NoneSeq
    ELSE LET dashless == SelectSeq(text, LAMBDA c : c # "-")
             clean_text == [i \in 1..Len(dashless) |-> lower(dashless[i])]
         IN IF /\ Len(clean_text) = 4
               /\ ord("a") <= ord(clean_text[1]) /\ ord(clean_text[1]) <= ord("i")
               /\ ord("0") <= ord(clean_text[2]) /\ ord(clean_text[2]) <= ord("9")
               /\ ord("a") <= ord(clean_text[3]) /\ ord(clean_text[3]) <= ord("i")
               /\ ord("0") <= ord(clean_text[4]) /\ ord(clean_text[4]) <= ord("9")
            THEN clean_text
            ELSE NoneSeq

-----------------------------------------------------------------------------
(* What the queries leave behind.  The grid is a list of ten row lists; a  *)
(* write into a row is seen through every reference to that row.  The heap *)
(* maps row addresses to rows, refs[rank] is the address of a grid's row.  *)
(* The copy itself is a new object (ChessBoard.__new__), so the assignment *)
(* to test_board.current_side never reaches self.                          *)

\* The grid is handed over as it is: the rows are those of the original
deepcopy_shares_rows(heap, refs) == [heap |-> heap, refs |-> refs]

\* copy.deepcopy(self.board): ten new rows with the content of the old ones
deepcopy(heap, refs) ==
    LET base == Cardinality(DOMAIN heap)
    IN [heap |-> [a \in 0..(base + RANKS - 1) |->
                     IF a < base THEN heap[a] ELSE heap[refs[a - base]]],
        refs |-> [rank \in 0..(RANKS - 1) |-> base + rank]]

\* self after is_valid_move(from_file, from_rank, to_file, to_rank): the two
\* writes go to the rows of test_board
after_is_valid_move(self, from_file, from_rank, to_file, to_rank) ==
    LET piece == get_piece(self, from_file, from_rank)
        target == get_piece(self, to_file, to_rank)
    IN IF piece = None \/ piece.side # self.current_side THEN self
       ELSE IF target # None /\ target.side = piece.side THEN self
       ELSE IF ~_is_valid_piece_move(self, piece, from_file, from_rank, to_file, to_rank)
            THEN self
       ELSE
       LET self_refs == [rank \in 0..(RANKS - 1) |-> rank]
           test_board == deepcopy(self.board, self_refs)
           moved == [test_board.heap EXCEPT ![test_board.refs[to_rank]][to_file] = piece]
           cleared == [moved EXCEPT ![test_board.refs[from_rank]][from_file] = None]
           seen == [rank \in 0..(RANKS - 1) |-> cleared[self_refs[rank]]]
       IN IF seen = self.board THEN self ELSE [self EXCEPT !.board = seen]

\* self after is_valid_move from (from_file, from_rank) to each of the targets
\* lo..hi that lie on the board, one after the other
RECURSIVE after_targets(_, _, _, _, _, _)
after_targets(self, from_file, from_rank, ts, lo, hi) ==
    IF lo > hi THEN self
    ELSE IF lo = hi
         THEN LET t == ts[lo]
              IN IF 0 <= t[1] /\ t[1] < FILES /\ 0 <= t[2] /\ t[2] < RANKS
                 THEN after_is_valid_move(self, from_file, from_rank, t[1], t[2])
                 ELSE self
    ELSE LET mid == (lo + hi) \div 2
             first == after_targets(self, from_file, from_rank, ts, lo, mid)
         IN IF first = self
            THEN after_targets(self, from_file, from_rank, ts, mid + 1, hi)
            ELSE after_targets(first, from_file, from_rank, ts, mid + 1, hi)

\* self after get_legal_moves(from_file, from_rank): tf outside, tr inside
after_get_legal_moves(self, from_file, from_rank) ==
    after_targets(self, from_file, from_rank,
                  [i \in 1..(FILES * RANKS) |-> <<(i - 1) \div RANKS, (i - 1) % RANKS>>],
                  1, FILES * RANKS)

\* self after get_all_legal_moves() has dealt with squares lo..hi of the scan
\* (rank outside, file inside)
RECURSIVE after_get_all_legal_moves_over(_, _, _)
after_get_all_legal_moves_over(self, lo, hi) ==
    IF lo > hi THEN self
    ELSE IF lo = hi
         THEN LET f1 == lo % FILES
                  r1 == lo \div FILES
                  piece == self.board[r1][f1]
                  ts == targets(self, piece, f1, r1)
              IN IF piece = None \/ piece.side # self.current_side THEN self
                 ELSE after_targets(self, f1, r1, ts, 1, Len(ts))
    ELSE LET mid == (lo + hi) \div 2
             first == after_get_all_legal_moves_over(self, lo, mid)
         IN IF first = self
            THEN after_get_all_legal_moves_over(self, mid + 1, hi)
            ELSE after_get_all_legal_moves_over(first, mid + 1, hi)

after_get_all_legal_moves(self) ==
    after_get_all_legal_moves_over(self, 0, FILES * RANKS - 1)

\* self after the loop of is_checkmate and is_stalemate has dealt with squares
\* lo..hi of the scan, and whether it has returned: it returns at the first own
\* piece with a legal move
RECURSIVE after_has_legal_move(_, _, _)
after_has_legal_move(self, lo, hi) ==
    IF lo > hi THEN [self |-> self, returned |-> FALSE]
    ELSE IF lo = hi
         THEN LET file == lo % FILES
                  rank == lo \div FILES
                  piece == self.board[rank][file]
              IN IF piece = None \/ piece.side # self.current_side
                 THEN [self |-> self, returned |-> FALSE]
                 ELSE [self |-> after_get_legal_moves(self, file, rank),
                       returned |-> get_legal_moves(self, file, rank) # {}]
    ELSE LET mid == (lo + hi) \div 2
             first == after_has_legal_move(self, lo, mid)
         IN IF first.returned THEN first
            ELSE after_has_legal_move(first.self, mid + 1, hi)

after_is_checkmate(self) ==
    IF ~_is_king_in_check(self, self.current_side) THEN self
    ELSE after_has_legal_move(self, 0, FILES * RANKS - 1).self

after_is_stalemate(self) ==
    IF _is_king_in_check(self, self.current_side) THEN self
    ELSE after_has_legal_move(self, 0, FILES * RANKS - 1).self

-----------------------------------------------------------------------------
(* The main window (main_window.py): stepping through the game and taking  *)
(* the engine's move.  A window is the record [board |-> its ChessBoard,   *)
(* redo_stack, engine_info_label, _candidate_moves]; a list used as a      *)
(* stack has its top at the end.  The engine is not thinking, and the      *)
(* window is neither in hint mode nor has it told the engine to stop.      *)

\* MainWindow._step_back
_step_back(self, allow_redo) ==
    LET r == undo_move(self.board)
        move == r.ret
    IN IF move # NoneSeq
       THEN [self EXCEPT !.board = r.self,
                         !.redo_stack = IF allow_redo THEN Append(self.redo_stack, move)
                                        ELSE <<>>]
       ELSE [self EXCEPT !.board = r.self]

\* MainWindow._step_forward
_step_forward(self) ==
    IF self.redo_stack = <<>> THEN self
    ELSE LET move == self.redo_stack[Len(self.redo_stack)]
         IN [self EXCEPT !.redo_stack = SubSeq(self.redo_stack, 1, Len(self.redo_stack) - 1),
                         !.board = make_move(self.board, move).self]

\* The backward loop of _goto_move: undo while the history is longer than target_len
RECURSIVE goto_backward(_, _)
goto_backward(self, target_len) ==
    IF ~(Len(self.board.move_history) > target_len) THEN self
    ELSE LET r == undo_move(self.board)
             move == r.ret
         IN goto_backward(
                [self EXCEPT !.board = r.self,
                             !.redo_stack = IF move # NoneSeq
                                            THEN Append(self.redo_stack, move)
                                            ELSE self.redo_stack],
                target_len)

\* The forward loop of _goto_move: `needed` times, pop a move and make it
RECURSIVE goto_forward(_, _)
goto_forward(self, needed) ==
    IF needed = 0 \/ self.redo_stack = <<>> THEN self
    ELSE LET move == self.redo_stack[Len(self.redo_stack)]
         IN goto_forward(
                [self EXCEPT !.redo_stack = SubSeq(self.redo_stack, 1, Len(self.redo_stack) - 1),
                             !.board = make_move(self.board, move).self],
                needed - 1)

\* MainWindow._goto_move
_goto_move(self, move_index) ==
    LET target_len == move_index + 1
        current_len == Len(self.board.move_history)
    IN IF target_len = current_len THEN self
       ELSE IF target_len < current_len THEN goto_backward(self, target_len)
       ELSE LET needed == target_len - current_len
            IN IF Len(self.redo_stack) < needed THEN self
               ELSE goto_forward(self, needed)

\* The loops of _on_engine_move without their break: the last alternative
\* that make_move accepts on the board is the one played
try_alternatives_no_break(board_, moves, k, move) ==
    LET hits == {i \in k..Len(moves) : moves[i] # move /\ make_move(board_, moves[i]).ret}
    IN IF hits = {} THEN [board |-> board_, alt_move |-> NoneSeq]
       ELSE LET last == CHOOSE i \in hits : \A j \in hits : j <= i
            IN [board |-> make_move(board_, moves[last]).self, alt_move |-> moves[last]]

\* The loops of _on_engine_move over alternative moves, from the k-th on: the
\* board after the calls of make_move, and the move that was accepted or None.
\* alternative_made is the body of the loop once make_move has returned r
RECURSIVE try_alternatives(_, _, _, _)
alternative_made(r, moves, k, move) ==
    IF r.ret THEN [board |-> r.self, alt_move |-> moves[k]]
    ELSE try_alternatives(r.self, moves, k + 1, move)

try_alternatives(board_, moves, k, move) ==
    IF k > Len(moves) THEN [board |-> board_, alt_move |-> NoneSeq]
    ELSE IF moves[k] # move
         THEN alternative_made(make_move(board_, moves[k]), moves, k, move)
         ELSE try_alternatives(board_, moves, k + 1, move)

\* _on_engine_move after its second loop, over get_all_legal_moves: the label
\* names the rejected move and the move forced, or says that no move is valid
engine_move_forced(self, move, forced) ==
    IF forced.alt_move # NoneSeq
    THEN [self EXCEPT !.board = forced.board, !.redo_stack = <<>>,
                      !.engine_info_label = <<"forced", move, forced.alt_move>>]
    ELSE [self EXCEPT !.board = forced.board,
                      !.engine_info_label = <<"no valid move">>]

\* The second loop runs on the board the first loop left
engine_move_last_resort(self, move, board_) ==
    engine_move_forced(self, move,
                       try_alternatives(board_, get_all_legal_moves(board_), 1, move))

\* _on_engine_move after its first loop, over the engine's candidates: the
\* label names the rejected move and the move played in its place
engine_move_replaced(self, move, tried) ==
    IF tried.alt_move # NoneSeq
    THEN [self EXCEPT !.board = tried.board, !.redo_stack = <<>>,
                      !.engine_info_label = <<"replaced", move, tried.alt_move>>]
    ELSE engine_move_last_resort(self, move, tried.board)

\* _on_engine_move once make_move has returned r for the engine's move
engine_move_made(self, move, r) ==
    IF r.ret
    THEN [self EXCEPT !.board = r.self, !.redo_stack = <<>>,
                      !.engine_info_label = <<"ready">>]
    ELSE engine_move_replaced(self, move,
                              try_alternatives(r.self, self._candidate_moves, 1, move))

\* MainWindow._on_engine_move in normal mode.  The label reads "ready", or names
\* the rejected move and the move played from the candidates ("replaced") or
\* from all legal moves ("forced"), or says that no move is valid
_on_engine_move(self, move) == engine_move_made(self, move, make_move(self.board, move))

-----------------------------------------------------------------------------
(* The board the application holds, and the calls made on it               *)

obj == [board |-> board, current_side |-> current_side, move_history |-> move_history,
        position_history |-> position_history, check_history |-> check_history,
        halfmove_clock |-> halfmove_clock, fullmove_number |-> fullmove_number]

\* The window and the engine as one record
win == [board |-> obj, redo_stack |-> redo_stack, engine_info_label |-> engine_info_label,
        _candidate_moves |-> _candidate_moves]

Becomes0(self) ==
    /\ board = self.board
    /\ current_side = self.current_side
    /\ move_history = self.move_history
    /\ position_history = self.position_history
    /\ check_history = self.check_history
    /\ halfmove_clock = self.halfmove_clock
    /\ fullmove_number = self.fullmove_number

Becomes(self) ==
    \E to \in {self} :
        /\ board' = to.board
        /\ current_side' = to.current_side
        /\ move_history' = to.move_history
        /\ position_history' = to.position_history
        /\ check_history' = to.check_history
        /\ halfmove_clock' = to.halfmove_clock
        /\ fullmove_number' = to.fullmove_number


WindowBecomes(self) ==
    \E to \in {self} :
        /\ Becomes(to.board)
        /\ redo_stack' = to.redo_stack
        /\ engine_info_label' = to.engine_info_label
        /\ _candidate_moves' = to._candidate_moves
        /\ UNCHANGED others

-----------------------------------------------------------------------------
(* The positions loaded and the move texts tried                           *)

\* "3k5/R8/9/9/9/9/9/9/9/5K3 w - - 0 1": Red to move; the Chariot can check on a9 and a8 in turn
FEN_PERPETUAL_RED ==
    <<"3", "k", "5", "/", "R", "8", "/", "9", "/", "9", "/", "9", "/", "9", "/", "9", "/", "9", "/", "9", "/", "5", "K", "3", " ", "w", " ", "-", " ", "-", " ", "0", " ", "1">>

\* "9/R2k5/9/9/9/9/9/9/9/5K3 b - - 0 1": the same cycle entered with Black to move
FEN_PERPETUAL_BLACK_FIRST ==
    <<"9", "/", "R", "2", "k", "5", "/", "9", "/", "9", "/", "9", "/", "9", "/", "9", "/", "9", "/", "9", "/", "5", "K", "3", " ", "b", " ", "-", " ", "-", " ", "0", " ", "1">>

\* "R8/2P6/3k5/9/9/9/9/9/9/5K3 w - - 0 1": the same cycle entered after Black captures on d8
FEN_PERPETUAL_AFTER_CAPTURE ==
    <<"R", "8", "/", "2", "P", "6", "/", "3", "k", "5", "/", "9", "/", "9", "/", "9", "/", "9", "/", "9", "/", "9", "/", "5", "K", "3", " ", "w", " ", "-", " ", "-", " ", "0", " ", "1">>

\* "3k5/9/9/9/9/9/9/4r4/4A4/4K4 w - - 0 1": the Advisor on e1 shields the Red General from the Chariot on e2
FEN_PINNED ==
    <<"3", "k", "5", "/", "9", "/", "9", "/", "9", "/", "9", "/", "9", "/", "9", "/", "4", "r", "4", "/", "4", "A", "4", "/", "4", "K", "4", " ", "w", " ", "-", " ", "-", " ", "0", " ", "1">>

\* "4k4/9/9/9/9/r3R4/9/9/9/4K4 w - - 0 1": the Chariot on e4 is all that stands between the Generals
FEN_FACING ==
    <<"4", "k", "4", "/", "9", "/", "9", "/", "9", "/", "9", "/", "r", "3", "R", "4", "/", "9", "/", "9", "/", "9", "/", "4", "K", "4", " ", "w", " ", "-", " ", "-", " ", "0", " ", "1">>

\* "5k3/9/9/9/9/9/9/4r4/4A4/3KK4 w - - 0 1": an edited position with two Red Generals
FEN_TWO_GENERALS ==
    <<"5", "k", "3", "/", "9", "/", "9", "/", "9", "/", "9", "/", "9", "/", "9", "/",
      "4", "r", "4", "/", "4", "A", "4", "/", "3", "K", "K", "4",
      " ", "w", " ", "-", " ", "-", " ", "0", " ", "1">>

\* "9/9/9/9/9/9/9/9/4K4 w - - 0 1": a placement of nine ranks
FEN_NINE_RANKS ==
    <<"9", "/", "9", "/", "9", "/", "9", "/", "9", "/", "9", "/", "9", "/", "9", "/", "4", "K", "4", " ", "w", " ", "-", " ", "-", " ", "0", " ", "1">>

\* "9/9/9/9/9/9/9/9/9/4K4 x - - 0 1": ten ranks and an active-color token that is no colour
FEN_BAD_SIDE ==
    <<"9", "/", "9", "/", "9", "/", "9", "/", "9", "/", "9", "/", "9", "/", "9", "/", "9", "/",
      "4", "K", "4", " ", "x", " ", "-", " ", "-", " ", "0", " ", "1">>

\* "3k5/R7R/9/9/9/9/9/9/9/5K3 w - - 0 1": the Chariot's check on a9 mates, the other Chariot holds rank 8
FEN_MATE ==
    <<"3", "k", "5", "/", "R", "7", "R", "/", "9", "/", "9", "/", "9", "/", "9", "/", "9", "/",
      "9", "/", "9", "/", "5", "K", "3", " ", "w", " ", "-", " ", "-", " ", "0", " ", "1">>

\* "9/9/9/9/9/4r4/9/9/9/4K4 b - - 0 1": Black, to move, has a Chariot and no General
FEN_NO_GENERAL ==
    <<"9", "/", "9", "/", "9", "/", "9", "/", "9", "/", "4", "r", "4", "/", "9", "/", "9", "/", "9", "/", "4", "K", "4", " ", "b", " ", "-", " ", "-", " ", "0", " ", "1">>

\* "3k5/R8/9/9/9/9/9/9/9/4K4 b - - 0 1": Black is not in check and has no move
FEN_STALEMATE ==
    <<"3", "k", "5", "/", "R", "8", "/", "9", "/", "9", "/", "9", "/", "9", "/", "9", "/",
      "9", "/", "9", "/", "4", "K", "4", " ", "b", " ", "-", " ", "-", " ", "0", " ", "1">>

Fens == {STARTING_FEN, FEN_PERPETUAL_RED, FEN_PERPETUAL_BLACK_FIRST, FEN_PERPETUAL_AFTER_CAPTURE,
         FEN_PINNED, FEN_FACING, FEN_TWO_GENERALS, FEN_NINE_RANKS, FEN_BAD_SIDE,
         FEN_MATE, FEN_STALEMATE, FEN_NO_GENERAL}

InputMoves ==
    {\* from the start: Cannon to the centre, a capture with check, a try at the General
     <<"h", "2", "e", "2">>, <<"h", "7", "e", "7">>, <<"e", "2", "e", "6">>, <<"a", "9", "a", "8">>, <<"e", "6", "e", "9">>,
     \* the checking cycle of the Chariot and the General's replies
     <<"a", "8", "a", "9">>, <<"a", "9", "a", "8">>, <<"d", "9", "d", "8">>, <<"d", "8", "d", "9">>,
     <<"c", "8", "d", "8">>, <<"d", "7", "d", "8">>,
     \* a pinned Advisor, a Chariot leaving and keeping the file between the Generals
     <<"e", "1", "d", "2">>, <<"e", "4", "a", "4">>, <<"e", "4", "e", "5">>, <<"e", "0", "d", "0">>,
     \* "h2e", "j2e2", "h2eX", "e0d0x" and "": too short, off the board, no digit, trailing character, empty
     <<"h", "2", "e">>, <<"j", "2", "e", "2">>, <<"h", "2", "e", "X">>,
     <<"e", "0", "d", "0", "x">>, <<>>}

MaxMoves == 11
MaxClock == 10

-----------------------------------------------------------------------------
(* Specification                                                           *)

\* The label reads "not connected" (main_window.py line 642)
Init ==
    /\ Becomes0(ChessBoard)
    /\ lastOp = "__init__"
    /\ ret = <<"None">>
    /\ redo_stack = <<>>
    /\ engine_info_label = <<"not connected">>
    /\ _candidate_moves = <<>>
    /\ bestmove = <<>>
    /\ is_ready = FALSE
    /\ is_thinking = FALSE
    /\ _current_depth = 0
    /\ reported = <<>>
    /\ process = "None"
    /\ stdin = <<>>
    /\ stdout = <<>>
    /\ searching = FALSE
    /\ signals = <<>>
    /\ edit_mode = FALSE
    /\ edit_piece = None
    /\ red_first = TRUE
    /\ _saved_board = NoneSeq
    /\ _saved_side = NoneSeq
    /\ opened = NoneSeq
    /\ settings = [red_player |-> "HUMAN", black_player |-> "ENGINE",
                   think_time |-> 2000, depth |-> 0, threads |-> 1]
    /\ on_bestmove = "_on_engine_move"
    /\ _realtime_original_on_bestmove = "unset"
    /\ _suppress_engine_turn = FALSE
    /\ hint_mode = FALSE
    /\ showing_hint_result = FALSE
    /\ _analysis_mode = FALSE
    /\ _realtime_analysis_enabled = FALSE
    /\ _realtime_analysis_active = FALSE
    /\ _realtime_pending = <<>>
    /\ _realtime_move_index = 0 - 1
    /\ interaction_enabled = TRUE
    /\ edited_position = FALSE
    /\ timers = <<>>
    /\ asked = <<>>

LoadFen ==
    \E fen \in Fens :
        LET r == load_fen(obj, fen)
        IN /\ Becomes(r.self)
           /\ lastOp' = "load_fen"
           /\ ret' = <<"bool", r.ret>>
           /\ UNCHANGED window

MakeMove ==
    /\ Len(move_history) < MaxMoves
    /\ halfmove_clock < MaxClock
    /\ \E move \in InputMoves :
           LET r == make_move(obj, move)
           IN /\ Becomes(r.self)
              /\ lastOp' = "make_move"
              /\ ret' = <<"bool", r.ret>>
              /\ UNCHANGED window

UndoMove ==
    LET r == undo_move(obj)
    IN /\ Becomes(r.self)
       /\ lastOp' = "undo_move"
       /\ ret' = IF r.ret = NoneSeq THEN <<"None">> ELSE <<"str", r.ret>>
       /\ UNCHANGED window

Next == LoadFen \/ MakeMove \/ UndoMove

Spec == Init /\ [][Next]_vars

-----------------------------------------------------------------------------
(* The rules of the game as the specification words them (section 4.3),    *)
(* stated on a grid and squares <<file, rank>>; the claims are measured     *)
(* against these, not against the operators above.                          *)

At(grid, sq) == grid[sq[2]][sq[1]]

Line(a, b) == a[1] = b[1] \/ a[2] = b[2]

\* The squares strictly between two squares of one file or one rank
Inside(a, b) ==
    IF a[1] = b[1]
    THEN {<<a[1], rank>> : rank \in between(a[2], b[2])}
    ELSE IF a[2] = b[2]
    THEN {<<file, a[2]>> : file \in between(a[1], b[1])}
    ELSE {}

Blockers(grid, a, b) == Cardinality({sq \in Inside(a, b) : At(grid, sq) # None})

Palace(side) == {sq \in Squares : sq[1] \in 3..5 /\
                                  (IF side = RED THEN sq[2] \in 0..2 ELSE sq[2] \in 7..9)}

OwnHalf(side) == {sq \in Squares : IF side = RED THEN sq[2] <= 4 ELSE sq[2] >= 5}

Forward(side) == IF side = RED THEN 1 ELSE -1

\* The movement-shape rule of the piece standing on from, for the destination to
MoveShape(grid, from, to) ==
    LET piece == At(grid, from)
        df == to[1] - from[1]
        dr == to[2] - from[2]
    IN CASE piece.type = KING ->
              to \in Palace(piece.side) /\ abs(df) + abs(dr) = 1
         [] piece.type = ADVISOR ->
              to \in Palace(piece.side) /\ abs(df) = 1 /\ abs(dr) = 1
         [] piece.type = BISHOP ->
              /\ to \in OwnHalf(piece.side) /\ abs(df) = 2 /\ abs(dr) = 2
              /\ At(grid, <<from[1] + df \div 2, from[2] + dr \div 2>>) = None
         [] piece.type = ROOK ->
              from # to /\ Line(from, to) /\ Blockers(grid, from, to) = 0
         [] piece.type = KNIGHT ->
              \/ abs(df) = 2 /\ abs(dr) = 1 /\ At(grid, <<from[1] + df \div 2, from[2]>>) = None
              \/ abs(df) = 1 /\ abs(dr) = 2 /\ At(grid, <<from[1], from[2] + dr \div 2>>) = None
         [] piece.type = CANNON ->
              /\ from # to /\ Line(from, to)
              /\ Blockers(grid, from, to) = IF At(grid, to) = None THEN 0 ELSE 1
         [] piece.type = PAWN ->
              \/ df = 0 /\ dr = Forward(piece.side)
              \/ dr = 0 /\ abs(df) = 1 /\ from \notin OwnHalf(piece.side)
         [] OTHER -> FALSE

Generals(grid, side) == {sq \in Squares : At(grid, sq) = Piece(KING, side)}

\* Some General of the side can be taken by an enemy piece
Attacked(grid, side) ==
    \E g \in Generals(grid, side) : \E sq \in Squares :
        /\ At(grid, sq) # None
        /\ At(grid, sq).side # side
        /\ MoveShape(grid, sq, g)

\* Two Generals on one file with nothing between them
GeneralsFace(grid) ==
    \E r \in Generals(grid, RED) : \E b \in Generals(grid, BLACK) :
        r[1] = b[1] /\ Blockers(grid, r, b) = 0

\* The grid once the piece on from has gone to to
Moved(grid, from, to) ==
    [[grid EXCEPT ![to[2]][to[1]] = At(grid, from)] EXCEPT ![from[2]][from[1]] = None]

\* The text of the move from one square to another
Text(from, to) == format_move(from[1], from[2], to[1], to[2])

\* is_valid_move for a pair of squares in the present position
Valid(m) == is_valid_move(obj, m[1][1], m[1][2], m[2][1], m[2][2])

\* Every pair of squares is_valid_move accepts in the present position
ValidPairs == {m \in Squares \X Squares : Valid(m)}

\* A side is in check on a grid when a General of it is attacked, and also when
\* it has no General there (section 4.3, check detection)
CheckOn(grid, side) == Generals(grid, side) = {} \/ Attacked(grid, side)

\* Legality steps 1 to 5 of section 4.3 for a pair of squares
Steps1to5(m) ==
    /\ At(board, m[1]) # None /\ At(board, m[1]).side = current_side
    /\ ~(At(board, m[2]) # None /\ At(board, m[2]).side = current_side)
    /\ MoveShape(board, m[1], m[2])
    /\ ~CheckOn(Moved(board, m[1], m[2]), current_side)
    /\ ~GeneralsFace(Moved(board, m[1], m[2]))

-----------------------------------------------------------------------------
(* Claims                                                                  *)

\* C1: for every legal move m, make_move(m) followed by undo_move() restores the
\* grid, the side to move, halfmove_clock and fullmove_number.
C1_MakeUndoRestores ==
    \A m \in ValidPairs :
        LET undone == undo_move(make_move(obj, Text(m[1], m[2])).self).self
        IN /\ undone.board = board
           /\ undone.current_side = current_side
           /\ undone.halfmove_clock = halfmove_clock
           /\ undone.fullmove_number = fullmove_number


\* C2: make_move returns False and changes no field of the board whenever
\* parse_move does not accept the text or is_valid_move does not accept the move.
Rejected(move) ==
    LET coords == parse_move(move)
    IN coords = NoneSeq \/ ~is_valid_move(obj, coords[1], coords[2], coords[3], coords[4])

C2_RejectedMoveChangesNothing ==
    \A move \in InputMoves :
        Rejected(move) => make_move(obj, move) = [self |-> obj, ret |-> FALSE]

\* A move was refused in the middle of a game
C2_Witness ==
    /\ lastOp = "make_move" /\ ret = <<"bool", FALSE>>
    /\ move_history # <<>> /\ check_history # <<>>

\* The moves the three enumerations of the present position accept, as pairs of squares
Accepted ==
    LET all == get_all_legal_moves(obj)
    IN ValidPairs
       \cup UNION {{<<from, to>> : to \in get_legal_moves(obj, from[1], from[2])} :
                      from \in Squares}
       \cup {<<<<parse_move(all[i])[1], parse_move(all[i])[2]>>,
               <<parse_move(all[i])[3], parse_move(all[i])[4]>>>> : i \in 1..Len(all)}

\* The side that made the move make_move has just accepted
JustMoved == lastOp = "make_move" /\ ret = <<"bool", TRUE>>

\* C3 as stated: in every position, no move accepted by is_valid_move,
\* get_legal_moves, get_all_legal_moves or make_move leaves a General of the
\* mover attacked by an enemy piece.
C3_NoSelfCheck ==
    /\ \A m \in Accepted : ~Attacked(Moved(board, m[1], m[2]), current_side)
    /\ JustMoved => ~Attacked(board, other_side(current_side))

\* C3 amended: in every position in which the mover has at most one General, no
\* move accepted by is_valid_move, get_legal_moves, get_all_legal_moves or
\* make_move leaves the mover's General attacked by an enemy piece.
C3_NoSelfCheckOneGeneral ==
    /\ Cardinality(Generals(board, current_side)) <= 1
          => \A m \in Accepted : ~Attacked(Moved(board, m[1], m[2]), current_side)
    /\ (JustMoved /\ Cardinality(Generals(board, other_side(current_side))) <= 1)
          => ~Attacked(board, other_side(current_side))

\* After a move was made, the side to move has a piece whose move of the right
\* shape would expose its General, and has legal moves
C3_Witness ==
    /\ JustMoved
    /\ Cardinality(Generals(board, current_side)) = 1
    /\ ValidPairs # {}
    /\ \E m \in Squares \X Squares :
          /\ At(board, m[1]) # None /\ At(board, m[1]).side = current_side
          /\ ~(At(board, m[2]) # None /\ At(board, m[2]).side = current_side)
          /\ MoveShape(board, m[1], m[2])
          /\ Attacked(Moved(board, m[1], m[2]), current_side)


\* The plies of the game on the board: ply i is move_history[i], made in the
\* position position_history[i]
PlyFrom(i) == <<parse_move(move_history[i])[1], parse_move(move_history[i])[2]>>

PlyTo(i) == <<parse_move(move_history[i])[3], parse_move(move_history[i])[4]>>

Mover(i) == At(position_history[i], PlyFrom(i)).side

GridAfter(i) == IF i = Len(move_history) THEN board ELSE position_history[i + 1]

\* Ply i takes nothing and moves no Soldier
Quiet(i) ==
    /\ At(position_history[i], PlyTo(i)) = None
    /\ At(position_history[i], PlyFrom(i)).type # PAWN

\* The plies of the longest run of quiet plies that ends the game so far
QuietRun == {j \in 1..Len(move_history) : \A k \in j..Len(move_history) : Quiet(k)}

\* How often, in the quiet run, the side has given check and left this grid
ChecksLeaving(grid, side) ==
    Cardinality({j \in QuietRun :
        Mover(j) = side /\ GridAfter(j) = grid /\ Attacked(grid, other_side(side))})

\* C4: within a run of moves without capture or Soldier move, make_move accepts
\* the first and the second checking move of a side that leave one and the same
\* position and rejects the third, wherever in the game the run starts.
C4_ThirdRepeatedCheckRejected ==
    /\ \A j \in QuietRun : ChecksLeaving(GridAfter(j), Mover(j)) <= 2
    /\ \A m \in Squares \X Squares :
           ( /\ Steps1to5(m)
             /\ At(board, m[2]) = None /\ At(board, m[1]).type # PAWN
             /\ Attacked(Moved(board, m[1], m[2]), other_side(current_side))
             /\ ChecksLeaving(Moved(board, m[1], m[2]), current_side) < 2 )
           => Valid(m)

\* C5: a move that satisfies legality steps 1 to 5 and gives no check is
\* accepted, whatever check_history holds.
C5_OnlyCheckingSideRestricted ==
    \A m \in Squares \X Squares :
        (Steps1to5(m) /\ ~CheckOn(Moved(board, m[1], m[2]), other_side(current_side)))
        => Valid(m)

\* The side that is only being checked has just left, without giving check, a
\* position that check_history now holds three times
C5_Witness ==
    /\ lastOp = "make_move" /\ ret = <<"bool", TRUE>>
    /\ check_history # <<>>
    /\ ~check_history[Len(check_history)][2]
    /\ Cardinality({i \in 1..Len(check_history) :
           check_history[i][1] = check_history[Len(check_history)][1]}) >= 3
    /\ \E i \in 1..Len(check_history) : check_history[i][2]

\* C6: for every square holding a piece of the side to move, get_legal_moves
\* gives the destinations of the moves of get_all_legal_moves that start there,
\* and get_all_legal_moves holds no move from any other square.
C6_EnumerationsAgree ==
    LET all == get_all_legal_moves(obj)
        parsed == {parse_move(all[i]) : i \in 1..Len(all)}
    IN /\ \A from \in Squares :
              (At(board, from) # None /\ At(board, from).side = current_side)
              => get_legal_moves(obj, from[1], from[2]) =
                 {<<c[3], c[4]>> : c \in {d \in parsed : <<d[1], d[2]>> = from}}
       /\ \A c \in parsed :
              /\ c # NoneSeq
              /\ At(board, <<c[1], c[2]>>) # None
              /\ At(board, <<c[1], c[2]>>).side = current_side

\* In mid-game the side to move has moves with Chariots or Cannons along ranks and files
C6_Witness ==
    /\ lastOp = "make_move" /\ ret = <<"bool", TRUE>>
    /\ \E m \in ValidPairs :
          At(board, m[1]).type \in {ROOK, CANNON} /\ m[2][2] = RANKS - 1
    /\ \E m \in ValidPairs : At(board, m[1]).type \in {KING, KNIGHT, PAWN}

\* C7: position_history and move_history have the same length in every state.
C7_HistoriesSameLength == Len(position_history) = Len(move_history)

\* A move was taken back and earlier moves remain
C7_Witness ==
    /\ lastOp = "undo_move" /\ ret[1] = "str"
    /\ Len(move_history) >= 2

MoversAlternate ==
    \A i \in 1..(Len(move_history) - 1) : Mover(i) # Mover(i + 1)

\* C8: a successful make_move flips current_side and a rejected one leaves it,
\* and the movers of consecutive entries of move_history alternate.
C8_SidesAlternate ==
    [][ /\ (lastOp' = "make_move" /\ ret' = <<"bool", TRUE>>)
              => current_side' = other_side(current_side)
        /\ (lastOp' = "make_move" /\ ret' = <<"bool", FALSE>>)
              => current_side' = current_side
        /\ MoversAlternate' ]_vars

\* Four moves made, the last one accepted
C8_Witness ==
    /\ lastOp = "make_move" /\ ret = <<"bool", TRUE>>
    /\ Len(move_history) >= 4

\* The grid the game on the board began with
RootGrid == IF position_history = <<>> THEN board ELSE position_history[1]

FromStart == RootGrid = ChessBoard.board

\* C9: where each side has one General, no legal move leaves the two Generals on
\* one file with nothing between them; the Generals do not face each other in
\* the standard start nor in any position reached from it.
C9_GeneralsNeverFace ==
    /\ (Cardinality(Generals(board, RED)) = 1 /\ Cardinality(Generals(board, BLACK)) = 1)
          => \A m \in ValidPairs : ~GeneralsFace(Moved(board, m[1], m[2]))
    /\ FromStart => ~GeneralsFace(board)

\* A move that passes legality steps 1 to 4 and would open the file between the
\* Generals was tried and refused
C9_Witness ==
    /\ lastOp = "make_move" /\ ret = <<"bool", FALSE>>
    /\ ValidPairs # {}
    /\ \E m \in Squares \X Squares :
          /\ At(board, m[1]) # None /\ At(board, m[1]).side = current_side
          /\ ~(At(board, m[2]) # None /\ At(board, m[2]).side = current_side)
          /\ MoveShape(board, m[1], m[2])
          /\ ~Attacked(Moved(board, m[1], m[2]), current_side)
          /\ GeneralsFace(Moved(board, m[1], m[2]))

\* C10: in a game begun from the standard starting position each side has
\* exactly one General on the board, and no legal move takes a General.
C10_OneGeneralEach ==
    FromStart =>
        /\ Cardinality(Generals(board, RED)) = 1
        /\ Cardinality(Generals(board, BLACK)) = 1
        /\ \A m \in ValidPairs : At(board, m[2]).type # KING

\* In a game from the start a General stands in check after a capture
C10_Witness ==
    /\ FromStart
    /\ lastOp = "make_move" /\ ret = <<"bool", TRUE>>
    /\ Attacked(board, current_side)
    /\ ValidPairs # {}

\* C11: in a game from a freshly constructed board, halfmove_clock is the number
\* of moves at the end of move_history made after the most recent capture or
\* Soldier move.
C11_ClockCountsQuietMoves ==
    FromStart => halfmove_clock = Cardinality(QuietRun)

-----------------------------------------------------------------------------
(* Games near the sixty-move threshold                                     *)

\* The clock is followed from SixtyFloor up to MaxSixtyClock
SixtyFloor == 118
MaxSixtyClock == 123

\* The FEN with its halfmove field replaced by n (the field is "0" in every FEN above)
with_halfmove(fen, n) == SubSeq(fen, 1, Len(fen) - 3) \o str(n) \o <<" ", "1">>

FensSixty ==
    {with_halfmove(fen, n) :
        fen \in {STARTING_FEN, FEN_PERPETUAL_RED, FEN_PERPETUAL_BLACK_FIRST,
                 FEN_PERPETUAL_AFTER_CAPTURE, FEN_FACING},
        n \in SixtyFloor..(SixtyFloor + 2)}

LoadFenSixty ==
    \E fen \in FensSixty :
        LET r == load_fen(obj, fen)
        IN /\ Becomes(r.self)
           /\ lastOp' = "load_fen"
           /\ ret' = <<"bool", r.ret>>
           /\ UNCHANGED window

MakeMoveSixty ==
    /\ Len(move_history) < MaxMoves
    /\ halfmove_clock >= SixtyFloor
    /\ halfmove_clock < MaxSixtyClock
    /\ \E move \in InputMoves :
           LET r == make_move(obj, move)
           IN /\ Becomes(r.self)
              /\ lastOp' = "make_move"
              /\ ret' = <<"bool", r.ret>>
              /\ UNCHANGED window

NextSixty == LoadFenSixty \/ MakeMoveSixty \/ UndoMove

SpecSixty == Init /\ [][NextSixty]_vars

\* C12: a successful make_move sets halfmove_clock to 0 when it captures a piece
\* or moves a Soldier and otherwise adds exactly 1 to it; is_sixty_move_rule() is
\* true exactly when halfmove_clock >= 120, hence false right after a capture.
C12_ClockStepAndSixtyMoveRule ==
    [][ /\ (lastOp' = "make_move" /\ ret' = <<"bool", TRUE>>) =>
              LET c == parse_move(move_history'[Len(move_history')])
                  resets == \/ At(board, <<c[3], c[4]>>) # None
                            \/ At(board, <<c[1], c[2]>>).type = PAWN
              IN /\ halfmove_clock' = IF resets THEN 0 ELSE halfmove_clock + 1
                 /\ resets => ~is_sixty_move_rule(obj)'
        /\ is_sixty_move_rule(obj)' = (halfmove_clock' >= 120) ]_vars

\* A capture has just reset a clock that two quiet moves had taken to 120 or beyond
C12_Witness ==
    /\ JustMoved
    /\ Len(move_history) = 3
    /\ Quiet(1) /\ Quiet(2) /\ ~Quiet(3)
    /\ At(position_history[3], PlyTo(3)) # None
    /\ halfmove_clock = 0
    /\ ~is_sixty_move_rule(obj)

\* C13: after a successful make_move that captures a piece or moves a Soldier,
\* check_history holds exactly one entry, the one of the resulting position.
C13_CheckHistoryReset ==
    (JustMoved /\ ~Quiet(Len(move_history))) =>
        /\ Len(check_history) = 1
        /\ check_history[1][1] = _get_position_key(obj)

\* A capture or Soldier move has followed two quiet moves
C13_Witness ==
    /\ JustMoved
    /\ Len(move_history) >= 3
    /\ ~Quiet(Len(move_history))
    /\ Quiet(Len(move_history) - 1) /\ Quiet(Len(move_history) - 2)

\* C14: load_fen of to_fen of the position on the board succeeds and gives the
\* same piece placement and the same side to move.
C14_FenRoundTrip ==
    LET r == load_fen(ChessBoard, to_fen(obj))
    IN /\ r.ret
       /\ r.self.board = board
       /\ r.self.current_side = current_side

\* A position with Black to move, three moves into a game from the start
C14_Witness ==
    /\ JustMoved
    /\ FromStart
    /\ current_side = BLACK
    /\ Len(move_history) >= 3
    /\ to_fen(obj) # STARTING_FEN

\* The placement field of the FEN is not ten ranks
WrongRankCount(fen) == Len(split_on(split(fen)[1], "/")) # RANKS

\* The FEN has an active-color token and it is neither "w" nor "b"
BadColorToken(fen) == Len(split(fen)) >= 2 /\ split(fen)[2] \notin {<<"w">>, <<"b">>}

\* C15: load_fen returns False when the placement field is not exactly 10 ranks
\* and when the active-color token is present and is neither 'w' nor 'b'.
C15_LoadFenReportsFailure ==
    \A fen \in Fens :
        (split(fen) # <<>> /\ (WrongRankCount(fen) \/ BadColorToken(fen)))
        => ~load_fen(obj, fen).ret

\* The text is exactly file a-i, rank 0-9, file a-i, rank 0-9
WellFormed(move) ==
    /\ Len(move) = 4
    /\ move[1] \in {"a", "b", "c", "d", "e", "f", "g", "h", "i"}
    /\ move[3] \in {"a", "b", "c", "d", "e", "f", "g", "h", "i"}
    /\ move[2] \in {"0", "1", "2", "3", "4", "5", "6", "7", "8", "9"}
    /\ move[4] \in {"0", "1", "2", "3", "4", "5", "6", "7", "8", "9"}

\* C16: parse_move returns None, and make_move returns False, for every text that
\* is not exactly four characters file, rank, file, rank, trailing characters
\* after a well-formed move included.
C16_OnlyFourCharacterMoves ==
    \A move \in InputMoves :
        ~WellFormed(move) => (parse_move(move) = NoneSeq /\ ~make_move(obj, move).ret)

\* The side has no General on the board, or a General of it can be taken
InCheck(side) == Generals(board, side) = {} \/ Attacked(board, side)

\* C17: is_checkmate() is true exactly when the side to move is in check and has
\* no legal move, is_stalemate() exactly when it is not in check and has no legal
\* move; they are never true together, and one of them is true exactly when
\* get_all_legal_moves() is empty.
C17_CheckmateAndStalemate ==
    LET mate == is_checkmate(obj)
        stale == is_stalemate(obj)
        check == InCheck(current_side)
        none == \A m \in Squares \X Squares : ~Valid(m)
    IN /\ mate = (check /\ none)
       /\ stale = (~check /\ none)
       /\ ~(mate /\ stale)
       /\ (mate \/ stale) = (get_all_legal_moves(obj) = <<>>)

\* A move has just mated a General that stands on the board
C17_Witness ==
    /\ JustMoved
    /\ Generals(board, current_side) # {}
    /\ Attacked(board, current_side)
    /\ is_checkmate(obj)
    /\ get_all_legal_moves(obj) = <<>>

\* The entries of check_history whose position, read off position_history and
\* the board, is the position on the board with the same side to move
SamePositionEntries ==
    {i \in 1..Len(check_history) :
        LET ply == Len(move_history) - Len(check_history) + i
        IN /\ GridAfter(ply) = board
           /\ (Len(move_history) - ply) % 2 = 0}

\* C18: is_threefold_repetition() is true exactly when check_history holds at
\* least 5 entries and the present position occurs at least 3 times among the
\* positions check_history records.
C18_ThreefoldRepetition ==
    is_threefold_repetition(obj) =
        (Len(check_history) >= 5 /\ Cardinality(SamePositionEntries) >= 3)

\* The position on the board has come up for the third time
C18_Witness ==
    /\ JustMoved
    /\ is_threefold_repetition(obj)
    /\ Cardinality(SamePositionEntries) = 3

-----------------------------------------------------------------------------
(* A game from the standard start in which Red brings two Soldiers to file *)
(* b and two to file h while Black moves a Chariot to and fro              *)

\* Red's moves: a3a4 a4a5 c3c4 c4c5 c5b5 b5b6 a5b5 i3i4 i4i5 g3g4 g4g5 g5h5 h5h6 i5h5
RedLine ==
    <<
      <<"a", "3", "a", "4">>, <<"a", "4", "a", "5">>, <<"c", "3", "c", "4">>, <<"c", "4", "c", "5">>,
      <<"c", "5", "b", "5">>, <<"b", "5", "b", "6">>, <<"a", "5", "b", "5">>, <<"i", "3", "i", "4">>,
      <<"i", "4", "i", "5">>, <<"g", "3", "g", "4">>, <<"g", "4", "g", "5">>, <<"g", "5", "h", "5">>,
      <<"h", "5", "h", "6">>, <<"i", "5", "h", "5">>>>

\* Black's replies: a9a8, a8a9
BlackReplies ==
    {<<"a", "9", "a", "8">>, <<"a", "8", "a", "9">>}

MaxGameMoves == 28

MaxGameClock == 2

MakeGameMove ==
    /\ Len(move_history) < MaxGameMoves
    /\ halfmove_clock < MaxGameClock
    /\ Len(move_history) \div 2 < Len(RedLine)
    /\ \E move \in (IF current_side = RED
                    THEN {RedLine[(Len(move_history) \div 2) + 1]}
                    ELSE BlackReplies) :
           LET r == make_move(obj, move)
           IN /\ Becomes(r.self)
              /\ lastOp' = "make_move"
              /\ ret' = <<"bool", r.ret>>
              /\ UNCHANGED window

NextGame == MakeGameMove \/ UndoMove

SpecGame == Init /\ [][NextGame]_vars

\* C19: in every position of a game from the standard start, chinese_to_move of
\* move_to_chinese of a move of get_all_legal_moves() is that move.
C19_ChineseRoundTrip ==
    LET all == get_all_legal_moves(obj)
    IN \A i \in 1..Len(all) :
           chinese_to_move(obj, move_to_chinese(obj, all[i])) = all[i]

-----------------------------------------------------------------------------
(* Texts handed to the notation conversions                                *)

\* "h2e", "j2e2", "h2eX", "", "J2-E2", "h9-e2-", "e0d0x", "h2e2", "H2-E2", "a3a4"
AsciiTexts ==
    {<<"h", "2", "e">>,
     <<"j", "2", "e", "2">>,
     <<"h", "2", "e", "X">>,
     <<>>,
     <<"J", "2", "-", "E", "2">>,
     <<"h", "9", "-", "e", "2", "-">>,
     <<"e", "0", "d", "0", "x">>,
     <<"h", "2", "e", "2">>,
     <<"H", "2", "-", "E", "2">>,
     <<"a", "3", "a", "4">>}

\* A rear Soldier moving to file four (no such move in these games), Cannon
\* two level to five, a text cut short, and a front Soldier advancing one
ChineseTexts ==
    {<<"hou", "bing", "ping", "si">>, <<"pao_red", "er", "ping", "wu">>,
     <<"pao_red", "er">>, <<" ", "qian", "bing", "jin", "yi">>}

\* ICCS text: file letter, rank digit, file letter, rank digit, in either case
\* and with dashes anywhere
IccsForm(text) ==
    LET at == {i \in 1..Len(text) : text[i] # "-"}
        nth(k) == CHOOSE i \in at : Cardinality({j \in at : j < i}) = k - 1
        letters == {"a", "b", "c", "d", "e", "f", "g", "h", "i",
                    "A", "B", "C", "D", "E", "F", "G", "H", "I"}
        figures == {"0", "1", "2", "3", "4", "5", "6", "7", "8", "9"}
    IN /\ Cardinality(at) = 4
       /\ text[nth(1)] \in letters /\ text[nth(2)] \in figures
       /\ text[nth(3)] \in letters /\ text[nth(4)] \in figures

\* The Chinese texts of the legal moves
LegalTexts ==
    LET all == get_all_legal_moves(obj)
    IN {move_to_chinese(obj, all[i]) : i \in 1..Len(all)}

\* Texts handed to chinese_to_move: the Chinese ones, "h2e2" and the empty text
MatchedTexts == ChineseTexts \cup {<<"h", "2", "e", "2">>, <<>>}

\* C20 (as stated): given move text it cannot parse, each of move_to_chinese,
\* chinese_to_move, move_to_iccs and iccs_to_move returns None or an empty result.
C20_UnparseableGivesNone ==
    /\ \A t \in AsciiTexts :
           /\ parse_move(t) = NoneSeq =>
                  /\ move_to_chinese(obj, t) = NoneSeq
                  /\ move_to_iccs(obj, t) = NoneSeq
           /\ ~IccsForm(t) => iccs_to_move(obj, t) = NoneSeq
    /\ LET legal == LegalTexts
       IN \A t \in MatchedTexts :
              strip(t) \notin legal => chinese_to_move(obj, t) = NoneSeq

\* C20 (amended): given move text it cannot parse, chinese_to_move and iccs_to_move
\* return None, move_to_chinese returns the text unchanged, and move_to_iccs
\* returns the text unchanged when it is not four characters long.
C20_UnparseableGivesNoneOrText ==
    /\ \A t \in AsciiTexts :
           /\ parse_move(t) = NoneSeq =>
                  /\ move_to_chinese(obj, t) = t
                  /\ Len(t) # 4 => move_to_iccs(obj, t) = t
           /\ ~IccsForm(t) => iccs_to_move(obj, t) = NoneSeq
    /\ LET legal == LegalTexts
       IN \A t \in MatchedTexts :
              strip(t) \notin legal => chinese_to_move(obj, t) = NoneSeq

\* After a move of the game: a cut-short text comes back unchanged from
\* move_to_chinese and move_to_iccs, chinese_to_move and iccs_to_move answer None
\* to texts they cannot parse, and each still converts a text it can parse
C20_Witness ==
    /\ lastOp = "make_move" /\ ret = <<"bool", TRUE>>
    /\ move_to_chinese(obj, <<"h", "2", "e">>) = <<"h", "2", "e">>
    /\ move_to_iccs(obj, <<"h", "2", "e">>) = <<"h", "2", "e">>
    /\ iccs_to_move(obj, <<"j", "2", "e", "2">>) = NoneSeq
    /\ iccs_to_move(obj, <<"H", "2", "-", "E", "2">>) = <<"h", "2", "e", "2">>
    /\ <<"hou", "bing", "ping", "si">> \notin LegalTexts
    /\ chinese_to_move(obj, <<"hou", "bing", "ping", "si">>) = NoneSeq
    /\ chinese_to_move(obj, <<"pao_red", "er", "ping", "wu">>) = <<"h", "2", "e", "2">>

-----------------------------------------------------------------------------
(* Position keys                                                           *)

\* The grids the game has seen: the current one and the snapshots taken
SeenGrids == {board} \cup {position_history[i] : i \in 1..Len(position_history)}

\* The board as it stands but with grid g and side s to move, and a board
\* fresh from construction with grid g and side s to move
Played(g, s) == [obj EXCEPT !.board = g, !.current_side = s]

Fresh(g, s) == [ChessBoard EXCEPT !.board = g, !.current_side = s]

\* C21: two boards have equal position keys exactly when they have the same piece
\* placement and the same side to move, whatever their histories and clocks.
C21_KeyIsPlacementAndSide ==
    LET placed == SeenGrids \X {RED, BLACK}
        played == [p \in placed |-> _get_position_key(Played(p[1], p[2]))]
        fresh == [p \in placed |-> _get_position_key(Fresh(p[1], p[2]))]
    IN \A p \in placed :
           /\ played[p] = fresh[p]
           /\ \A q \in placed : (played[p] = played[q]) <=> (p = q)

\* A position has come back: the grid on the board is also an earlier snapshot,
\* other snapshots differ from it, and the board's histories are not empty
C21_Witness ==
    /\ Len(move_history) >= 2 /\ check_history # <<>>
    /\ \E i \in 1..Len(position_history) : position_history[i] = board
    /\ \E i \in 1..Len(position_history) : position_history[i] # board

-----------------------------------------------------------------------------
(* Queries                                                                 *)

\* C22: is_valid_move, get_legal_moves, get_all_legal_moves, is_checkmate and
\* is_stalemate leave every field of the board as it was: the trial move is made
\* on a copy whose grid shares no row with the board's.
C22_QueriesLeaveBoard ==
    /\ \A from \in Squares, to \in Squares :
           after_is_valid_move(obj, from[1], from[2], to[1], to[2]) = obj
    /\ \A from \in Squares : after_get_legal_moves(obj, from[1], from[2]) = obj
    /\ after_get_all_legal_moves(obj) = obj
    /\ after_is_checkmate(obj) = obj
    /\ after_is_stalemate(obj) = obj

\* In the game, a piece of the side to move has a move that passes the test of
\* its shape, so that the trial move is written to the copy
C22_Witness ==
    /\ move_history # <<>>
    /\ \E from \in Squares, to \in Squares :
           /\ At(board, from).side = current_side
           /\ At(board, to).side # current_side
           /\ _is_valid_piece_move(obj, At(board, from), from[1], from[2], to[1], to[2])


\* C23: _is_king_in_check(side) is true whenever the side has no General on the
\* board; a side to move without a General has no legal move and is_checkmate()
\* is true.
C23_NoGeneralIsCheck ==
    /\ \A side \in {RED, BLACK} :
           Generals(board, side) = {} => _is_king_in_check(obj, side)
    /\ Generals(board, current_side) = {} =>
           /\ get_all_legal_moves(obj) = <<>>
           /\ \A from \in Squares : get_legal_moves(obj, from[1], from[2]) = {}
           /\ \A from \in Squares, to \in Squares :
                  ~make_move(obj, Text(from, to)).ret
           /\ is_checkmate(obj)

\* The side to move has no General and has a piece that could move by its shape
C23_Witness ==
    /\ Generals(board, current_side) = {}
    /\ \E from \in Squares, to \in Squares :
           /\ At(board, from).side = current_side
           /\ At(board, to) = None
           /\ MoveShape(board, from, to)

-----------------------------------------------------------------------------
(* A game from the standard start in which Red moves an Advisor and an     *)
(* Elephant to the edge of their ground and Black a Soldier over the river *)
(* and the General through the palace, each trying to go on from there     *)

\* d0e1 e1f2 f2g1 (out of the palace), c0e2 e2g4 g4i6 (over the river), e3e2 (back)
RedPieceMoves ==
    {<<"d", "0", "e", "1">>, <<"e", "1", "f", "2">>, <<"f", "2", "g", "1">>, <<"c", "0", "e", "2">>,
     <<"e", "2", "g", "4">>, <<"g", "4", "i", "6">>, <<"e", "3", "e", "2">>}

\* e6e5 e5e4 e4d4 d4d5 (back), e9e8 e8e7 e7e6 (out of the palace)
BlackPieceMoves ==
    {<<"e", "6", "e", "5">>, <<"e", "5", "e", "4">>, <<"e", "4", "d", "4">>, <<"d", "4", "d", "5">>,
     <<"e", "9", "e", "8">>, <<"e", "8", "e", "7">>, <<"e", "7", "e", "6">>}

MaxPieceMoves == 8

MakePieceMove ==
    /\ Len(move_history) < MaxPieceMoves
    /\ \E move \in (IF current_side = RED THEN RedPieceMoves ELSE BlackPieceMoves) :
           LET r == make_move(obj, move)
           IN /\ Becomes(r.self)
              /\ lastOp' = "make_move"
              /\ ret' = <<"bool", r.ret>>
              /\ UNCHANGED window

NextPieces == MakePieceMove

SpecPieces == Init /\ [][NextPieces]_vars

\* The squares of the grid holding a piece of the type and side
Holding(grid, type, side) == {sq \in Squares : At(grid, sq) = Piece(type, side)}

\* C24: in every position reached from the standard start by legal moves, each
\* General and Advisor is inside its own palace, each Elephant on its own half,
\* and no Soldier behind its starting rank (Red rank >= 3, Black rank <= 6).
C24_PiecesKeepTheirGround ==
    FromStart =>
        \A side \in {RED, BLACK} :
            /\ Holding(board, KING, side) \subseteq Palace(side)
            /\ Holding(board, ADVISOR, side) \subseteq Palace(side)
            /\ Holding(board, BISHOP, side) \subseteq OwnHalf(side)
            /\ \A sq \in Holding(board, PAWN, side) :
                   IF side = RED THEN sq[2] >= 3 ELSE sq[2] <= 6

\* Red's Advisor on f2 and Elephant on g4, at the edge of their ground, Black's
\* General on e7 and a Black Soldier over the river
C24_Witness ==
    /\ FromStart
    /\ At(board, <<5, 2>>) = Piece(ADVISOR, RED)
    /\ At(board, <<6, 4>>) = Piece(BISHOP, RED)
    /\ At(board, <<4, 7>>) = Piece(KING, BLACK)
    /\ At(board, <<4, 4>>) = Piece(PAWN, BLACK)

-----------------------------------------------------------------------------
(* The record of checks                                                    *)

\* The ply after which entry j (counted from 0) of check_history was recorded:
\* the entries belong to the last plies of move_history
EntryPly(j) == Len(move_history) - Len(check_history) + j + 1

\* C26: in every state reached by load_fen, make_move and undo_move, the entries
\* of check_history at even indices were recorded after moves by Red and those at
\* odd indices after moves by Black.
C26_CheckHistoryParity ==
    /\ Len(check_history) <= Len(move_history)
    /\ \A j \in 0..(Len(check_history) - 1) :
           Mover(EntryPly(j)) = IF j % 2 = 0 THEN RED ELSE BLACK


\* C27: for every legal move m, make_move(m) followed by undo_move() leaves
\* check_history as it was before make_move.
C27_MakeUndoKeepsCheckHistory ==
    \A m \in ValidPairs :
        undo_move(make_move(obj, Text(m[1], m[2])).self).self.check_history = check_history

-----------------------------------------------------------------------------
(* A game from the standard start played on the window and then stepped    *)
(* through: Black's Soldier move a6a5 starts a run in which Red's Cannon   *)
(* checks three times from b9, and Red's Soldier move c3c4 ends the run    *)

\* a3a4 c9e7 b2b9 e9e8 b9b8 e8e9 i0i1 a6a5 b8b9 e9e8 b9b8 e8e9 b8b9 e9e8 b9b8
\* e8e9 b8b9 e9e8 c3c4
PlayedLine ==
    <<
      <<"a", "3", "a", "4">>, <<"c", "9", "e", "7">>, <<"b", "2", "b", "9">>, <<"e", "9", "e", "8">>,
      <<"b", "9", "b", "8">>, <<"e", "8", "e", "9">>, <<"i", "0", "i", "1">>, <<"a", "6", "a", "5">>,
      <<"b", "8", "b", "9">>, <<"e", "9", "e", "8">>, <<"b", "9", "b", "8">>, <<"e", "8", "e", "9">>,
      <<"b", "8", "b", "9">>, <<"e", "9", "e", "8">>, <<"b", "9", "b", "8">>, <<"e", "8", "e", "9">>,
      <<"b", "8", "b", "9">>, <<"e", "9", "e", "8">>, <<"c", "3", "c", "4">>>>

\* The rows of the move list that are clicked: moves 9, 14 and 19
GotoIndices == {8, 13, 18}

\* The game is played to its end, then stepped back through, then forward:
\* the window may go back while it has only played or gone back so far
StillPlaying == lastOp \in {"__init__", "_on_player_move"}

GoingBack == lastOp \in {"_on_player_move", "_step_back"}

Navigating == redo_stack # <<>> \/ Len(move_history) = Len(PlayedLine)

\* BoardWidget makes the player's move and MainWindow._on_player_move follows
PlayerMove ==
    /\ StillPlaying
    /\ Len(move_history) < Len(PlayedLine)
    /\ LET r == make_move(obj, PlayedLine[Len(move_history) + 1])
       IN /\ r.ret
          /\ Becomes(r.self)
          /\ redo_stack' = <<>>
          /\ lastOp' = "_on_player_move"
          /\ ret' = <<"None">>
          /\ UNCHANGED <<engine_info_label, _candidate_moves, bestmove, others>>

StepBack ==
    /\ Navigating /\ GoingBack
    /\ WindowBecomes(_step_back(win, TRUE))
    /\ lastOp' = "_step_back"
    /\ ret' = <<"None">>
    /\ UNCHANGED bestmove

StepForward ==
    /\ Navigating
    /\ WindowBecomes(_step_forward(win))
    /\ lastOp' = "_step_forward"
    /\ ret' = <<"None">>
    /\ UNCHANGED bestmove

GotoMove ==
    /\ Navigating
    /\ \E move_index \in GotoIndices :
           /\ move_index + 1 < Len(move_history) => GoingBack
           /\ WindowBecomes(_goto_move(win, move_index))
    /\ lastOp' = "_goto_move"
    /\ ret' = <<"None">>
    /\ UNCHANGED bestmove

NextLine == PlayerMove \/ StepBack \/ StepForward \/ GotoMove

SpecLine == Init /\ [][NextLine]_vars


\* undo_move called k times: the board afterwards and the moves it returned,
\* the first undone first
RECURSIVE Undone(_, _)
Undone(self, k) ==
    IF k = 0 THEN [self |-> self, moves |-> <<>>]
    ELSE LET r == undo_move(self)
             rest == Undone(r.self, k - 1)
         IN [self |-> rest.self, moves |-> <<r.ret>> \o rest.moves]

\* make_move called on moves[i], moves[i - 1], ..., moves[1]: the board
\* afterwards and whether every call returned True
RECURSIVE Redone(_, _, _)
Redone(self, moves, i) ==
    IF i = 0 THEN [self |-> self, ok |-> TRUE]
    ELSE LET r == make_move(self, moves[i])
         IN IF r.ret THEN Redone(r.self, moves, i - 1)
            ELSE [self |-> Redone(r.self, moves, i - 1).self, ok |-> FALSE]

\* C28: on a board reached from the start by make_move and undo_move, for every
\* k up to the length of move_history, k calls of undo_move followed by make_move
\* of the moves returned, the last undone first, all succeed and give back the
\* grid, the side to move and move_history.
C28_UndoThenRedo ==
    FromStart =>
        \A k \in 0..Len(move_history) :
            LET back == Undone(obj, k)
                again == Redone(back.self, back.moves, k)
            IN /\ again.ok
               /\ again.self.board = board
               /\ again.self.current_side = current_side
               /\ again.self.move_history = move_history

\* The moves of the game in the order played: move_history, then the redo stack
\* from its top to its bottom
GameMoves ==
    move_history \o [i \in 1..Len(redo_stack) |-> redo_stack[Len(redo_stack) + 1 - i]]

\* C29: a step of _step_back (with allow_redo), _step_forward or _goto_move
\* leaves move_history followed by the redo stack, top first, as it was.
C29_NavigationKeepsMoves ==
    [][lastOp' \in {"_step_back", "_step_forward", "_goto_move"} => GameMoves' = GameMoves]_vars


-----------------------------------------------------------------------------
(* The engine's moves: positions are loaded and the engine proposes a move  *)
(* of the checking cycle, a General's step or a text that is no move, with  *)
(* the candidate list its search left behind                                *)

EngineFens == {FEN_PERPETUAL_RED, FEN_MATE, FEN_STALEMATE}

\* What bestmove_signal carries: moves of the cycle and "0000"
EngineProposals ==
    {<<"a", "8", "a", "9">>, <<"a", "9", "a", "8">>, <<"d", "9", "d", "8">>, <<"d", "8", "d", "9">>,
     <<"0", "0", "0", "0">>}

\* The lists _parse_output collects: first moves of the lines of the search, none twice
CandidateLists ==
    {<<>>,
     <<<<"a", "8", "a", "9">>, <<"a", "9", "a", "8">>>>,
     <<<<"a", "8", "a", "9">>, <<"a", "8", "b", "8">>, <<"a", "8", "c", "8">>>>,
     <<<<"a", "9", "a", "8">>, <<"a", "9", "b", "9">>, <<"a", "9", "c", "9">>>>}

MaxEngineMoves == 10

LoadFenEngine ==
    \E fen \in EngineFens :
        LET r == load_fen(obj, fen)
        IN /\ Becomes(r.self)
           /\ lastOp' = "load_fen"
           /\ ret' = <<"bool", r.ret>>
           /\ UNCHANGED window

\* The engine is asked for a move in a position just loaded or reached by a move
\* of its own that was accepted
EngineToMove ==
    \/ lastOp \in {"__init__", "load_fen"}
    \/ lastOp = "_on_engine_move" /\ engine_info_label = <<"ready">>

\* The search fills the candidate list, bestmove_signal delivers the move and
\* _on_engine_move handles it
EngineMove ==
    /\ EngineToMove
    /\ Len(move_history) < MaxEngineMoves
    /\ \E move \in EngineProposals : \E cands \in CandidateLists :
           /\ bestmove' = move
           /\ WindowBecomes(_on_engine_move(
                  [board |-> obj, redo_stack |-> redo_stack,
                   engine_info_label |-> engine_info_label, _candidate_moves |-> cands],
                  move))
    /\ lastOp' = "_on_engine_move"
    /\ ret' = <<"None">>

NextEngine == LoadFenEngine \/ EngineMove

SpecEngine == Init /\ [][NextEngine]_vars


\* The first move of a list, from the k-th on, that make_move accepts in the
\* present position, or None
RECURSIVE FirstAccepted(_, _)
FirstAccepted(moves, k) ==
    IF k > Len(moves) THEN NoneSeq
    ELSE IF make_move(obj, moves[k]).ret THEN moves[k]
    ELSE FirstAccepted(moves, k + 1)

\* The move played in place of a rejected move: from the candidates, else from
\* the legal moves, else None
Substitute(candidates, legal) ==
    LET first == FirstAccepted(candidates, 1)
    IN IF first # NoneSeq THEN first ELSE FirstAccepted(legal, 1)

\* The squares a move text names
PlayedFrom(text) == <<parse_move(text)[1], parse_move(text)[2]>>

PlayedTo(text) == <<parse_move(text)[3], parse_move(text)[4]>>

\* C25: when make_move rejects the engine's move, the handler plays the first
\* move make_move accepts among the candidates in order, failing that among
\* get_all_legal_moves(), and nothing else; the move played is not the rejected
\* move and is legal; if no move is accepted the board stays as it was.
C25_RejectedEngineMove ==
    [][(lastOp' = "_on_engine_move" /\ ~make_move(obj, bestmove').ret) =>
         \A legal \in {get_all_legal_moves(obj)} :
         \A played \in {Substitute(_candidate_moves', legal)} :
            IF played = NoneSeq
            THEN UNCHANGED <<board, current_side, move_history, position_history,
                             check_history, halfmove_clock, fullmove_number>>
            ELSE /\ move_history' = Append(move_history, played)
                 /\ played # bestmove'
                 /\ Steps1to5(<<PlayedFrom(played), PlayedTo(played)>>)
                 /\ board' = Moved(board, PlayedFrom(played), PlayedTo(played))
                 /\ current_side' = other_side(current_side)]_vars

\* The engine's check on a9, the third of the cycle, was refused as a perpetual
\* check; of the candidates a8a9, a8b8 and a8c8 the first is the refused move
\* and a8b8 was played
C25_Witness ==
    /\ lastOp = "_on_engine_move"
    /\ bestmove = <<"a", "8", "a", "9">>
    /\ _candidate_moves = <<bestmove, <<"a", "8", "b", "8">>, <<"a", "8", "c", "8">>>>
    /\ engine_info_label = <<"replaced", bestmove, <<"a", "8", "b", "8">>>>
    /\ Len(move_history) = 9
    /\ move_history[8] = <<"d", "8", "d", "9">>
    /\ move_history[9] = <<"a", "8", "b", "8">>


-----------------------------------------------------------------------------
(* Repetition counted from the position the game began with                 *)

\* The plies, 0 for the position the game began with, at which the grid and
\* the side to move were what they are now
Occurrences ==
    {i \in 0..Len(move_history) :
        /\ GridAfter(i) = board
        /\ i < Len(move_history) => Mover(i + 1) = current_side}

\* C30: after moves of which none is a capture or a Soldier move,
\* is_threefold_repetition() is true once the present position has occurred
\* three times, the position the game began with counting as an occurrence.
C30_ThreefoldCountsStart ==
    (QuietRun = 1..Len(move_history) /\ Cardinality(Occurrences) >= 3)
        => is_threefold_repetition(obj)


-----------------------------------------------------------------------------
(* The last entry of check_history                                          *)

\* C31 (as stated): where check_history is not empty, its last entry holds the
\* key of the present position and tells whether the side to move is in check.
C31_LastEntryIsPresent ==
    check_history # <<>> =>
        /\ check_history[Len(check_history)][1] = _get_position_key(obj)
        /\ check_history[Len(check_history)][2] = CheckOn(board, current_side)

\* C31 amended: where check_history is not empty, its last entry holds the key
\* of the present position and, if the side to move has at most one General,
\* tells whether the side to move is in check.
C31_LastEntryOneGeneral ==
    check_history # <<>> =>
        /\ check_history[Len(check_history)][1] = _get_position_key(obj)
        /\ Cardinality(Generals(board, current_side)) <= 1 =>
               check_history[Len(check_history)][2] = CheckOn(board, current_side)

\* A move was undone and the entry now last tells of a check on the side to move
C31_Witness ==
    /\ lastOp = "undo_move" /\ ret # <<"None">>
    /\ Len(check_history) >= 2
    /\ check_history[Len(check_history)][2]
    /\ Cardinality(Generals(board, current_side)) = 1
    /\ Attacked(board, current_side)


-----------------------------------------------------------------------------
(* A FEN that fails to load                                                 *)

\* C32: a load_fen that returns False for a placement that is not ten ranks
\* leaves the grid empty and move_history, position_history and check_history
\* empty, and current_side, halfmove_clock and fullmove_number as they were.
C32_FailedLoadClears ==
    [][(lastOp' = "load_fen" /\ ret' = <<"bool", FALSE>>) =>
          /\ \A sq \in Squares : At(board', sq) = None
          /\ move_history' = <<>>
          /\ position_history' = <<>>
          /\ check_history' = <<>>
          /\ UNCHANGED <<current_side, halfmove_clock, fullmove_number>>]_vars

\* A load has failed in a game in which Black was to move after a quiet move:
\* the grid is empty, the side, the clock and the move number are the game's
C32_Witness ==
    /\ lastOp = "load_fen" /\ ret = <<"bool", FALSE>>
    /\ \A sq \in Squares : At(board, sq) = None
    /\ move_history = <<>>
    /\ current_side = BLACK
    /\ halfmove_clock > 0


-----------------------------------------------------------------------------
(* Positions with several pieces of one kind on a file: five Red Soldiers   *)
(* on file e with two Red Chariots and a Cannon on file a, and three Black  *)
(* Soldiers on file c with two Black Horses on file g and two Chariots on   *)
(* file a; the piles are thinned by moves                                   *)

\* "3k4r/4P4/4P4/4P4/4P4/R3P4/9/C8/9/R3K4 w - - 0 1"
FEN_PILE_RED ==
    <<"3", "k", "4", "r", "/", "4", "P", "4", "/", "4", "P", "4", "/", "4", "P", "4", "/", "4", "P", "4", "/", "R", "3", "P", "4", "/", "9", "/", "C", "8", "/", "9", "/", "R", "3", "K", "4", " ", "w", " ", "-", " ", "-", " ", "0", " ", "1">>

\* "r3k4/9/r8/9/9/2p3n2/2p6/2p3n2/9/4K4 b - - 0 1"
FEN_PILE_BLACK ==
    <<"r", "3", "k", "4", "/", "9", "/", "r", "8", "/", "9", "/", "9", "/", "2", "p", "3", "n", "2", "/", "2", "p", "6", "/", "2", "p", "3", "n", "2", "/", "9", "/", "4", "K", "4", " ", "b", " ", "-", " ", "-", " ", "0", " ", "1">>

PileFens == {FEN_PILE_RED, FEN_PILE_BLACK}

\* e6d6 e8d8 e7d7 a4a3 a2b2 i9i8 i8i9 c3b3 c2c1 c4d4 a7a6 g4e5 e0d0 d0e0
PileMoves ==
    {<<"e", "6", "d", "6">>,
     <<"e", "8", "d", "8">>,
     <<"e", "7", "d", "7">>,
     <<"a", "4", "a", "3">>,
     <<"a", "2", "b", "2">>,
     <<"i", "9", "i", "8">>,
     <<"i", "8", "i", "9">>,
     <<"c", "3", "b", "3">>,
     <<"c", "2", "c", "1">>,
     <<"c", "4", "d", "4">>,
     <<"a", "7", "a", "6">>,
     <<"g", "4", "e", "5">>,
     <<"e", "0", "d", "0">>,
     <<"d", "0", "e", "0">>}

MaxPileMoves == 5

LoadFenPiles ==
    \E fen \in PileFens :
        LET r == load_fen(obj, fen)
        IN /\ Becomes(r.self)
           /\ lastOp' = "load_fen"
           /\ ret' = <<"bool", r.ret>>
           /\ UNCHANGED window

MakePileMove ==
    /\ Len(move_history) < MaxPileMoves
    /\ \E move \in PileMoves :
           LET r == make_move(obj, move)
           IN /\ Becomes(r.self)
              /\ lastOp' = "make_move"
              /\ ret' = <<"bool", r.ret>>
              /\ UNCHANGED window

NextPiles == LoadFenPiles \/ MakePileMove

SpecPiles == Init /\ [][NextPiles]_vars

\* The ranks of the file of a square that hold a piece of the kind and side of
\* the piece on the square
Pile(from) ==
    {rank \in 0..9 : /\ At(board, <<from[1], rank>>) # None
                     /\ At(board, <<from[1], rank>>).type = At(board, from).type
                     /\ At(board, <<from[1], rank>>).side = At(board, from).side}

\* How many of the pile stand ahead of the square, towards the opponent
Ahead(from) ==
    Cardinality({rank \in Pile(from) :
                    IF At(board, from).side = RED THEN rank > from[2] ELSE rank < from[2]})

\* The numeral k as the side of the piece on the square writes it
Numeral(from, k) == IF At(board, from).side = RED THEN RED_NUMS[k] ELSE BLACK_NUMS[k]

\* The numeral of the file of the square: Red counts from its right, Black from Red's left
FileNumeral(from) ==
    IF At(board, from).side = RED THEN RED_NUMS[9 - from[1]] ELSE BLACK_NUMS[from[1] + 1]

\* C33: the text of a move of a piece begins with a prefix exactly when two or
\* more pieces of its kind and side stand on its file: qian for the foremost,
\* hou for the rearmost, the numeral of its place counted from the front for
\* one between them, and then the piece name follows and no file numeral;
\* otherwise the text is the piece name and the numeral of its file.
C33_PrefixOnSharedFile ==
    \A from \in Squares :
        At(board, from) # None =>
            \A to \in Squares :
                LET text == move_to_chinese(obj, Text(from, to))
                    count == Cardinality(Pile(from))
                    ahead == Ahead(from)
                IN /\ Len(text) = 4
                   /\ text[3] \in {"jin", "tui", "ping"}
                   /\ IF count >= 2
                      THEN /\ text[1] = (IF ahead = 0 THEN "qian"
                                         ELSE IF ahead = count - 1 THEN "hou"
                                         ELSE Numeral(from, ahead + 1))
                           /\ text[2] = to_chinese(At(board, from))
                      ELSE /\ text[1] = to_chinese(At(board, from))
                           /\ text[2] = FileNumeral(from)

\* After a move, four Red Soldiers stand on file e and two Red Chariots on file a
C33_Witness ==
    /\ JustMoved
    /\ At(board, <<4, 7>>) # None /\ At(board, <<4, 7>>).type = PAWN
    /\ Cardinality(Pile(<<4, 7>>)) = 4
    /\ Ahead(<<4, 7>>) = 1
    /\ Cardinality(Pile(<<0, 0>>)) = 2


-----------------------------------------------------------------------------
(* UCIEngine: the commands it writes, the lines it parses and the list of  *)
(* candidate moves it collects                                              *)

\* The fields of the ChessBoard
game == <<board, current_side, move_history, position_history, check_history,
          halfmove_clock, fullmove_number>>

\* The UCIEngine object: process.stdin holds the commands written and not yet read,
\* signals the emitted signals the main thread has not dispatched yet
engine ==
    [process |-> process, is_ready |-> is_ready, is_thinking |-> is_thinking,
     _candidate_moves |-> _candidate_moves, _current_depth |-> _current_depth,
     stdin |-> stdin, signals |-> signals]

EngineBecomes(self) ==
    \E to \in {self} :
        /\ process' = to.process
        /\ is_ready' = to.is_ready
        /\ is_thinking' = to.is_thinking
        /\ _candidate_moves' = to._candidate_moves
        /\ _current_depth' = to._current_depth
        /\ stdin' = to.stdin
        /\ signals' = to.signals

EngineInfo ==
    [depth |-> 0, score |-> 0, pv |-> <<>>, nodes |-> 0, nps |-> 0, time |-> 0,
     wdl |-> <<0, 1000, 0>>, wdl_valid |-> FALSE]

_send_command(self, command) ==
    IF self.process # "None" THEN [self EXCEPT !.stdin = Append(@, command)] ELSE self

\* stop(): the process is told to quit and forgotten, its input pipe with it
stop(self) ==
    [(IF self.process # "None" THEN [self EXCEPT !.process = "None", !.stdin = <<>>] ELSE self)
       EXCEPT !.is_ready = FALSE, !.is_thinking = FALSE]

\* start(engine_path) with a path that can be executed
start(self) == _send_command([stop(self) EXCEPT !.process = "Popen"], <<"u", "c", "i">>)

\* The while loop of _parse_info from index i (counted from 0) on
RECURSIVE parse_info_loop(_, _, _)
parse_info_loop(tokens, i, info) ==
    IF ~(i < Len(tokens)) THEN info
    ELSE IF tokens[i + 1] = <<"d", "e", "p", "t", "h">> /\ i + 1 < Len(tokens) THEN
        parse_info_loop(tokens, i + 2,
            IF int_raises(tokens[i + 2]) THEN info
            ELSE [info EXCEPT !.depth = int(tokens[i + 2])])
    ELSE IF tokens[i + 1] = <<"s", "c", "o", "r", "e">> /\ i + 2 < Len(tokens) THEN
        parse_info_loop(tokens, i + 3,
            IF tokens[i + 2] = <<"c", "p">> THEN
                IF int_raises(tokens[i + 3]) THEN info
                ELSE [info EXCEPT !.score = int(tokens[i + 3])]
            ELSE IF tokens[i + 2] = <<"m", "a", "t", "e">> THEN
                IF int_raises(tokens[i + 3]) THEN info
                ELSE [info EXCEPT !.score = IF int(tokens[i + 3]) > 0 THEN 30000 ELSE 0 - 30000]
            ELSE info)
    ELSE IF tokens[i + 1] = <<"w", "d", "l">> /\ i + 3 < Len(tokens) THEN
        parse_info_loop(tokens, i + 4,
            IF int_raises(tokens[i + 2]) \/ int_raises(tokens[i + 3]) \/ int_raises(tokens[i + 4])
            THEN info
            ELSE [info EXCEPT !.wdl = <<int(tokens[i + 2]), int(tokens[i + 3]), int(tokens[i + 4])>>,
                              !.wdl_valid = TRUE])
    ELSE IF tokens[i + 1] = <<"n", "o", "d", "e", "s">> /\ i + 1 < Len(tokens) THEN
        parse_info_loop(tokens, i + 2,
            IF int_raises(tokens[i + 2]) THEN info
            ELSE [info EXCEPT !.nodes = int(tokens[i + 2])])
    ELSE IF tokens[i + 1] = <<"n", "p", "s">> /\ i + 1 < Len(tokens) THEN
        parse_info_loop(tokens, i + 2,
            IF int_raises(tokens[i + 2]) THEN info
            ELSE [info EXCEPT !.nps = int(tokens[i + 2])])
    ELSE IF tokens[i + 1] = <<"t", "i", "m", "e">> /\ i + 1 < Len(tokens) THEN
        parse_info_loop(tokens, i + 2,
            IF int_raises(tokens[i + 2]) THEN info
            ELSE [info EXCEPT !.time = int(tokens[i + 2])])
    ELSE IF tokens[i + 1] = <<"p", "v">> THEN
        [info EXCEPT !.pv = join(SubSeq(tokens, i + 2, Len(tokens)), <<" ">>)]
    ELSE parse_info_loop(tokens, i + 1, info)

_parse_info(tokens) == parse_info_loop(tokens, 0, EngineInfo)

\* The list after a line of the given depth whose variation begins with first_move,
\* without the test that keeps a move from entering the list twice
collect_again(self, depth, first_move) ==
    IF depth > self._current_depth THEN
        [self EXCEPT !._current_depth = depth, !._candidate_moves = <<first_move>>]
    ELSE IF depth = self._current_depth THEN
        [self EXCEPT !._candidate_moves = Append(@, first_move)]
    ELSE self

\* Lines 180-188 of _parse_output: the list after a line of the given depth whose
\* variation begins with first_move
collect(self, depth, first_move) ==
    IF depth > self._current_depth THEN
        [self EXCEPT !._current_depth = depth, !._candidate_moves = <<first_move>>]
    ELSE IF depth = self._current_depth THEN
        IF \A i \in 1..Len(self._candidate_moves) : self._candidate_moves[i] # first_move
        THEN [self EXCEPT !._candidate_moves = Append(@, first_move)]
        ELSE self
    ELSE self

\* The info branch of _parse_output, the line parsed
parse_output_info(self, info) ==
    [(IF info.pv # <<>> /\ info.depth > 0 /\ split(info.pv) # <<>>
      THEN collect(self, info.depth, split(info.pv)[1])
      ELSE self)
       EXCEPT !.signals = Append(@, <<"info_signal", info>>)]

\* _parse_output(line), the tokens of a line that has some
parse_output_tokens(self, tokens) ==
    IF tokens[1] = <<"u", "c", "i", "o", "k">> THEN
        _send_command(_send_command(self, <<"s", "e", "t", "o", "p", "t", "i", "o", "n", " ", "n", "a", "m", "e", " ", "U", "C", "I", "_", "S", "h", "o", "w", "W", "D", "L", " ", "v", "a", "l", "u", "e", " ", "t", "r", "u", "e">>), <<"i", "s", "r", "e", "a", "d", "y">>)
    ELSE IF tokens[1] = <<"r", "e", "a", "d", "y", "o", "k">> THEN
        [self EXCEPT !.is_ready = TRUE, !.signals = Append(@, <<"ready_signal">>)]
    ELSE IF tokens[1] = <<"b", "e", "s", "t", "m", "o", "v", "e">> THEN
        [self EXCEPT !.is_thinking = FALSE,
                     !.signals = IF Len(tokens) >= 2 THEN Append(@, <<"bestmove_signal", tokens[2]>>)
                                 ELSE @]
    ELSE IF tokens[1] = <<"i", "n", "f", "o">> THEN parse_output_info(self, _parse_info(Tail(tokens)))
    ELSE self

_parse_output(self, line) ==
    IF line = <<>> THEN self
    ELSE IF split(line) = <<>> THEN self
    ELSE parse_output_tokens(self, split(line))

new_game(self) ==
    IF self.is_ready THEN _send_command(_send_command(self, <<"u", "c", "i", "n", "e", "w", "g", "a", "m", "e">>), <<"i", "s", "r", "e", "a", "d", "y">>) ELSE self

\* set_position(fen=fen, moves=moves): the empty fen stands for the start position,
\* the empty list for no moves
set_position(self, fen, moves) ==
    IF ~self.is_ready THEN self
    ELSE _send_command(self,
             (IF fen # <<>> THEN <<"p", "o", "s", "i", "t", "i", "o", "n", " ", "f", "e", "n", " ">> \o fen ELSE <<"p", "o", "s", "i", "t", "i", "o", "n", " ", "s", "t", "a", "r", "t", "p", "o", "s">>)
             \o (IF moves # <<>> THEN <<" ", "m", "o", "v", "e", "s", " ">> \o join(moves, <<" ">>) ELSE <<>>))

\* go(depth, movetime, infinite, searchmoves): 0 stands for a depth or a time that
\* is None, the empty list for searchmoves that is None
go(self, depth, movetime, infinite, searchmoves) ==
    IF ~self.is_ready \/ self.is_thinking THEN self
    ELSE _send_command(
             [self EXCEPT !._candidate_moves = <<>>, !._current_depth = 0, !.is_thinking = TRUE],
             <<"g", "o">>
             \o (IF searchmoves # <<>> THEN <<" ", "s", "e", "a", "r", "c", "h", "m", "o", "v", "e", "s", " ">> \o join(searchmoves, <<" ">>) ELSE <<>>)
             \o (IF infinite THEN <<" ", "i", "n", "f", "i", "n", "i", "t", "e">>
                 ELSE (IF depth # 0 THEN <<" ", "d", "e", "p", "t", "h", " ">> \o str(depth) ELSE <<>>)
                      \o (IF movetime # 0 THEN <<" ", "m", "o", "v", "e", "t", "i", "m", "e", " ">> \o str(movetime) ELSE <<>>)
                      \o (IF depth = 0 /\ movetime = 0 THEN <<" ", "m", "o", "v", "e", "t", "i", "m", "e", " ", "2", "0", "0", "0">> ELSE <<>>)))

stop_thinking(self) == IF self.is_thinking THEN _send_command(self, <<"s", "t", "o", "p">>) ELSE self

\* get_candidate_moves(): a copy of the list
get_candidate_moves(self) == self._candidate_moves


-----------------------------------------------------------------------------
(* A search: the engine is started, asked to search and stopped, the engine *)
(* process answers, the reader thread parses what it wrote and the main     *)
(* thread dispatches the signals                                            *)

\* The info lines a search writes: two variations at depth 1, three at depth 2, two of
\* them with the same first move, a line with the move being searched at depth 3 and
\* a line of text
InfoLines ==
    {<<"i", "n", "f", "o", " ", "d", "e", "p", "t", "h", " ", "1", " ", "m", "u", "l", "t", "i", "p", "v", " ", "1", " ", "s", "c", "o", "r", "e", " ", "c", "p", " ", "1", "0", " ", "n", "o", "d", "e", "s", " ", "2", "0", " ", "p", "v", " ", "a", "0", "a", "1", " ", "a", "9", "a", "8">>,
     <<"i", "n", "f", "o", " ", "d", "e", "p", "t", "h", " ", "1", " ", "m", "u", "l", "t", "i", "p", "v", " ", "2", " ", "s", "c", "o", "r", "e", " ", "c", "p", " ", "5", " ", "p", "v", " ", "b", "0", "c", "2">>,
     <<"i", "n", "f", "o", " ", "d", "e", "p", "t", "h", " ", "2", " ", "m", "u", "l", "t", "i", "p", "v", " ", "1", " ", "s", "c", "o", "r", "e", " ", "c", "p", " ", "1", "2", " ", "w", "d", "l", " ", "1", "0", "0", " ", "8", "0", "0", " ", "1", "0", "0", " ", "p", "v", " ", "a", "0", "a", "1">>,
     <<"i", "n", "f", "o", " ", "d", "e", "p", "t", "h", " ", "2", " ", "m", "u", "l", "t", "i", "p", "v", " ", "2", " ", "s", "c", "o", "r", "e", " ", "m", "a", "t", "e", " ", "3", " ", "p", "v", " ", "b", "0", "c", "2", " ", "b", "9", "c", "7">>,
     <<"i", "n", "f", "o", " ", "d", "e", "p", "t", "h", " ", "2", " ", "s", "c", "o", "r", "e", " ", "c", "p", " ", "1", "2", " ", "n", "p", "s", " ", "1", "0", "0", "0", " ", "t", "i", "m", "e", " ", "3", " ", "p", "v", " ", "a", "0", "a", "1", " ", "c", "9", "c", "8">>,
     <<"i", "n", "f", "o", " ", "d", "e", "p", "t", "h", " ", "3", " ", "c", "u", "r", "r", "m", "o", "v", "e", " ", "a", "0", "a", "1", " ", "c", "u", "r", "r", "m", "o", "v", "e", "n", "u", "m", "b", "e", "r", " ", "1">>,
     <<"i", "n", "f", "o", " ", "s", "t", "r", "i", "n", "g", " ", "N", "N", "U", "E", " ", "e", "v", "a", "l", "u", "a", "t", "i", "o", "n", " ", "e", "n", "a", "b", "l", "e", "d">>}

BestmoveLines == {<<"b", "e", "s", "t", "m", "o", "v", "e", " ", "a", "0", "a", "1", " ", "p", "o", "n", "d", "e", "r", " ", "a", "9", "a", "8">>, <<"b", "e", "s", "t", "m", "o", "v", "e", " ", "(", "n", "o", "n", "e", ")">>}

\* What _get_engine_go_params returns and a search for the hint of a second move
GoParams ==
    {[depth |-> 12, movetime |-> 500, infinite |-> FALSE, searchmoves |-> <<>>],
     [depth |-> 0, movetime |-> 0, infinite |-> TRUE,
      searchmoves |-> <<<<"a", "0", "a", "1">>, <<"b", "0", "c", "2">>>>]}

\* The info lines one search writes, the signals that wait and the commands that wait
MaxLines == 3
MaxSignals == 1
MaxCommands == 2

IsInfo(line) == split(line) # <<>> /\ split(line)[1] = <<"i", "n", "f", "o">>

\* The info lines of the running search written so far
Written == Len(reported) + Len(SelectSeq(stdout, IsInfo))

Start ==
    /\ process = "None"
    /\ EngineBecomes(start(engine))
    /\ lastOp' = "start"
    /\ ret' = <<"bool", TRUE>>
    /\ UNCHANGED <<game, editor, session, redo_stack, engine_info_label, bestmove, reported, stdout, searching>>

\* go() is called where the callers call it: when the engine is not thinking
Go ==
    /\ ~is_thinking
    /\ Len(stdin) < MaxCommands
    /\ \E params \in GoParams :
           EngineBecomes(go(engine, params.depth, params.movetime, params.infinite,
                            params.searchmoves))
    /\ reported' = <<>>
    /\ lastOp' = "go"
    /\ ret' = <<"None">>
    /\ UNCHANGED <<game, editor, session, redo_stack, engine_info_label, bestmove, stdout, searching>>

StopThinking ==
    /\ is_thinking
    /\ Len(stdin) < MaxCommands
    /\ EngineBecomes(stop_thinking(engine))
    /\ lastOp' = "stop_thinking"
    /\ ret' = <<"None">>
    /\ UNCHANGED <<game, editor, session, redo_stack, engine_info_label, bestmove, reported, stdout, searching>>

\* Whether a command makes the engine process write or begin or end a search
Acts(command) == split(command)[1] \in {<<"u", "c", "i">>, <<"i", "s", "r", "e", "a", "d", "y">>, <<"g", "o">>, <<"s", "t", "o", "p">>}

\* The commands the engine process reads in one go: those up to the first that
\* makes it act, or all
Taken(commands) ==
    IF \E i \in 1..Len(commands) : Acts(commands[i])
    THEN CHOOSE i \in 1..Len(commands) :
             Acts(commands[i]) /\ \A j \in 1..(i - 1) : ~Acts(commands[j])
    ELSE Len(commands)

\* The engine process reads its input up to a command that makes it act: it answers
\* uci and isready, begins to search on go and ends the search on stop with one of
\* the given lines, if it may answer
ProcessReadsAnswering(lines, answers) ==
    /\ process # "None"
    /\ stdin # <<>>
    /\ stdin' = SubSeq(stdin, Taken(stdin) + 1, Len(stdin))
    /\ \E command \in {split(stdin[Taken(stdin)])[1]} :
           IF command = <<"u", "c", "i">>
           THEN /\ stdout' = stdout \o <<<<"i", "d", " ", "n", "a", "m", "e", " ", "P", "i", "k", "a", "f", "i", "s", "h">>, <<"u", "c", "i", "o", "k">>>>
                /\ UNCHANGED searching
           ELSE IF command = <<"i", "s", "r", "e", "a", "d", "y">>
           THEN /\ stdout' = Append(stdout, <<"r", "e", "a", "d", "y", "o", "k">>)
                /\ UNCHANGED searching
           ELSE IF command = <<"g", "o">>
           THEN /\ searching' = TRUE
                /\ UNCHANGED stdout
           ELSE IF command = <<"s", "t", "o", "p">> /\ searching /\ answers
           THEN /\ searching' = FALSE
                /\ \E line \in lines : stdout' = Append(stdout, line)
           ELSE UNCHANGED <<stdout, searching>>
    /\ UNCHANGED <<game, editor, session, lastOp, ret, redo_stack, engine_info_label,
                   _candidate_moves, bestmove, search, process, signals>>

ProcessReads == ProcessReadsAnswering(BestmoveLines, TRUE)

ProcessWritesInfo ==
    /\ searching
    /\ Written < MaxLines
    /\ \E line \in InfoLines : stdout' = Append(stdout, line)
    /\ UNCHANGED <<game, editor, session, lastOp, ret, redo_stack, engine_info_label,
                   _candidate_moves, bestmove, search, process, stdin, searching, signals>>

\* The search ends with one of the given lines
ProcessWritesOneOf(lines) ==
    /\ searching
    /\ searching' = FALSE
    /\ \E line \in lines : stdout' = Append(stdout, line)
    /\ UNCHANGED <<game, editor, session, lastOp, ret, redo_stack, engine_info_label,
                   _candidate_moves, bestmove, search, process, stdin, signals>>

ProcessWritesBestmove == ProcessWritesOneOf(BestmoveLines)

\* One round of the loop of _read_output in the reader thread
ReadOutput ==
    /\ process # "None"
    /\ stdout # <<>>
    /\ Len(signals) < MaxSignals
    /\ EngineBecomes(_parse_output(engine, strip(Head(stdout))))
    /\ stdout' = Tail(stdout)
    /\ reported' = IF IsInfo(Head(stdout)) THEN Append(reported, strip(Head(stdout))) ELSE reported
    /\ lastOp' = "_parse_output"
    /\ ret' = <<"None">>
    /\ UNCHANGED <<game, editor, session, redo_stack, engine_info_label, bestmove, searching>>

\* The main thread dispatches a signal of an engine that has no callbacks yet
Dispatch ==
    /\ signals # <<>>
    /\ signals' = Tail(signals)
    /\ bestmove' = IF Head(signals)[1] = "bestmove_signal" THEN Head(signals)[2] ELSE bestmove
    /\ UNCHANGED <<game, editor, session, lastOp, ret, redo_stack, engine_info_label, _candidate_moves,
                   search, process, stdin, stdout, searching>>

NextSearch ==
    \/ Start \/ Go \/ StopThinking
    \/ ProcessReads \/ ProcessWritesInfo \/ ProcessWritesBestmove
    \/ ReadOutput \/ Dispatch

SpecSearch == Init /\ [][NextSearch]_vars


-----------------------------------------------------------------------------
(* C38                                                                      *)

\* The place of the first of the words that is the given one, 0 when none is
Place(words, word) ==
    IF \E i \in 1..Len(words) : words[i] = word
    THEN CHOOSE i \in 1..Len(words) : words[i] = word /\ \A j \in 1..(i - 1) : words[j] # word
    ELSE 0

\* The moves that follow the word pv
MovesIn(words) ==
    IF Place(words, <<"p", "v">>) = 0 THEN <<>>
    ELSE SubSeq(words, Place(words, <<"p", "v">>) + 1, Len(words))

\* The number that follows the word depth
DepthIn(words) ==
    IF Place(words, <<"d", "e", "p", "t", "h">>) = 0 THEN 0 ELSE int(words[Place(words, <<"d", "e", "p", "t", "h">>) + 1])

Variation(line) == MovesIn(split(line))

DepthOf(line) == DepthIn(split(line))

\* The lines handled since go() was called last that give a variation, in words
PvLines ==
    SelectSeq([i \in 1..Len(reported) |-> split(reported[i])], LAMBDA words : MovesIn(words) # <<>>)

\* The first moves of the lines, each with the depth of its line
Firsts(lines) == [k \in 1..Len(lines) |-> [depth |-> DepthIn(lines[k]), move |-> MovesIn(lines[k])[1]]]

\* The first moves of the lines of the greatest depth
Deepest(firsts) ==
    {firsts[k].move : k \in {k \in 1..Len(firsts) : \A j \in 1..Len(firsts) : firsts[j].depth <= firsts[k].depth}}

\* C38: at any time get_candidate_moves() returns a list without duplicates whose
\* members are the first moves of the variations of the info lines handled since the
\* most recent go() at the greatest depth such a line has given; after go() and before
\* the first such line the list is empty, and a line of greater depth leaves only its
\* own first move
C38_CandidatesOfGreatestDepth ==
    \A list \in {get_candidate_moves(engine)} :
        /\ \A i, j \in 1..Len(list) : i # j => list[i] # list[j]
        /\ {list[i] : i \in 1..Len(list)} = Deepest(Firsts(PvLines))

\* a line of depth 1 and two lines of depth 2 with the same first move have been
\* handled: the list holds that move once
C38_Witness ==
    /\ lastOp = "_parse_output"
    /\ Len(reported) = 3
    /\ DepthOf(reported[1]) = 1 /\ Variation(reported[1]) # <<>>
    /\ DepthOf(reported[2]) = 2 /\ DepthOf(reported[3]) = 2
    /\ reported[2] # reported[3]
    /\ Variation(reported[2]) # <<>> /\ Variation(reported[3]) # <<>>
    /\ Variation(reported[2])[1] = Variation(reported[3])[1]
    /\ get_candidate_moves(engine) = <<Variation(reported[3])[1]>>


-----------------------------------------------------------------------------
(* The board editor: the game is played, the editor is opened, pieces are   *)
(* placed and removed, the board is cleared, reset or read from a FEN, and  *)
(* the dialog is confirmed or cancelled                                     *)

set_piece(self, file, rank, piece) ==
    IF 0 <= file /\ file < FILES /\ 0 <= rank /\ rank < RANKS
    THEN [self EXCEPT !.board[rank][file] = piece]
    ELSE self

\* BoardEditorDialog._clear_board
_clear_board(self) == [self EXCEPT !.board = [rank \in 0..(RANKS - 1) |-> [file \in 0..(FILES - 1) |-> None]]]

\* BoardEditorDialog._reset_board: the board and the radio button
_reset_board(self) == load_fen(self, STARTING_FEN).self

\* BoardEditorDialog._flip_board_position
_flip_board_position(self) ==
    [self EXCEPT !.board = [rank \in 0..(RANKS - 1) |-> [file \in 0..(FILES - 1) |-> self.board[9 - rank][file]]]]

\* BoardEditorDialog._confirm, given whether red_first is checked
_confirm_flipped(self, red_king) ==
    [(IF red_king # NoneSeq /\ red_king[2] >= 5 THEN _flip_board_position(self) ELSE self)
       EXCEPT !.move_history = <<>>, !.position_history = <<>>, !.check_history = <<>>,
              !.halfmove_clock = 0, !.fullmove_number = 1]

_confirm(self, red_first_checked) ==
    _confirm_flipped([self EXCEPT !.current_side = IF red_first_checked THEN RED ELSE BLACK],
                     _find_king(self, RED))

\* The else branch of _on_edit_finished
edit_rejected(self, saved_board, saved_side) ==
    [self EXCEPT !.board = saved_board, !.current_side = saved_side]

\* The moves clicked before the editor is opened
EditorMoves == {<<"a", "3", "a", "4">>, <<"a", "6", "a", "5">>, <<"h", "2", "e", "2">>}

\* The texts typed into the import dialog: a position with Black to move and clocks,
\* a text of nine ranks, and blanks
EditorFens == {<<"3", "k", "5", "/", "R", "8", "/", "9", "/", "9", "/", "9", "/", "9", "/", "9", "/", "9", "/", "9", "/", "5", "K", "3", " ", "b", " ", "-", " ", "-", " ", "7", " ", "1", "2">>, FEN_NINE_RANKS, <<" ", " ">>}

\* The square clicked in the editor and the pieces chosen
EditorSquares == {<<4, 4>>}

EditorPieces == {Piece(ROOK, BLACK), Piece(KING, RED)}

MaxEditorMoves == 1

\* The editor is opened once in a game
MaxEditorSessions == 1

EditorSessions == IF opened = NoneSeq THEN 0 ELSE 1


-----------------------------------------------------------------------------
(* MainWindow with its engine: the handlers of the signals, of the buttons  *)
(* and of the timers                                                        *)

\* The one element of a set of one element: a handler computes on the window as
\* it is when the handler is called
Value(set) == CHOOSE value \in set : TRUE

\* The window, its board and its engine as one record
app ==
    [board |-> obj, engine |-> engine, redo_stack |-> redo_stack,
     engine_info_label |-> engine_info_label, edit_mode |-> edit_mode,
     settings |-> settings, on_bestmove |-> on_bestmove,
     _realtime_original_on_bestmove |-> _realtime_original_on_bestmove,
     _suppress_engine_turn |-> _suppress_engine_turn, hint_mode |-> hint_mode,
     showing_hint_result |-> showing_hint_result, _analysis_mode |-> _analysis_mode,
     _realtime_analysis_enabled |-> _realtime_analysis_enabled,
     _realtime_analysis_active |-> _realtime_analysis_active,
     _realtime_pending |-> _realtime_pending, _realtime_move_index |-> _realtime_move_index,
     interaction_enabled |-> interaction_enabled, edited_position |-> edited_position,
     timers |-> timers, asked |-> asked]

AppBecomes(self) ==
    \E to \in {self} :
        /\ Becomes(to.board)
        /\ EngineBecomes(to.engine)
        /\ redo_stack' = to.redo_stack
        /\ engine_info_label' = to.engine_info_label
        /\ edit_mode' = to.edit_mode
        /\ settings' = to.settings
        /\ on_bestmove' = to.on_bestmove
        /\ _realtime_original_on_bestmove' = to._realtime_original_on_bestmove
        /\ _suppress_engine_turn' = to._suppress_engine_turn
        /\ hint_mode' = to.hint_mode
        /\ showing_hint_result' = to.showing_hint_result
        /\ _analysis_mode' = to._analysis_mode
        /\ _realtime_analysis_enabled' = to._realtime_analysis_enabled
        /\ _realtime_analysis_active' = to._realtime_analysis_active
        /\ _realtime_pending' = to._realtime_pending
        /\ _realtime_move_index' = to._realtime_move_index
        /\ interaction_enabled' = to.interaction_enabled
        /\ edited_position' = to.edited_position
        /\ timers' = to.timers
        /\ asked' = to.asked

\* What the handlers of the window leave alone
beside_app == <<bestmove, reported, stdout, searching, edit_piece, red_first,
                _saved_board, _saved_side, opened>>

is_draw(self) == is_threefold_repetition(self) \/ is_sixty_move_rule(self)

_is_game_over(self) ==
    is_checkmate(self.board) \/ is_stalemate(self.board) \/ is_draw(self.board)

\* The elif branch of _check_game_result that touches the engine: a draw stops a search
_check_game_result(this) ==
    Value({
        IF ~is_checkmate(self.board) /\ ~is_stalemate(self.board) /\ is_draw(self.board)
        THEN [self EXCEPT !.engine = stop_thinking(@)]
        ELSE self
        : self \in {this} })

\* settings['red_player'] or settings['black_player'], by the side to move
current_player(self) ==
    IF self.board.current_side = RED THEN self.settings.red_player ELSE self.settings.black_player

\* What _get_engine_go_params returns for None: no time and no depth
NoParams == [movetime |-> 0, depth |-> 0]

\* _get_engine_go_params: 0 stands for a key that is left out
_get_engine_go_params(self) ==
    IF self.settings.think_time = 0 /\ self.settings.depth = 0 THEN NoParams
    ELSE [movetime |-> IF self.settings.think_time > 0 THEN self.settings.think_time ELSE 0,
          depth |-> IF self.settings.depth > 0 THEN self.settings.depth ELSE 0]

\* engine.go(**params) by the window; asked notes what a search that starts is for
go_for(this, params, purpose) ==
    Value({
        [self EXCEPT !.engine = go(@, params.depth, params.movetime, FALSE, <<>>),
                     !.asked = IF self.engine.is_ready /\ ~self.engine.is_thinking
                               THEN Append(@, purpose) ELSE @]
        : self \in {this} })

\* engine.set_position(fen=fen) and engine.go(**params), when the parameters are some
position_and_go(this, fen, params, purpose) ==
    Value({
        go_for([self EXCEPT !.engine = set_position(@, fen, <<>>)], params, purpose)
        : self \in {this} })

_check_engine_turn(this) ==
    Value({
        IF self.edit_mode THEN self
        ELSE IF _is_game_over(self) THEN [self EXCEPT !.interaction_enabled = FALSE]
        ELSE IF current_player(self) = "ENGINE" THEN
            IF self._suppress_engine_turn THEN [self EXCEPT !.interaction_enabled = TRUE]
            ELSE IF self.engine.is_ready /\ ~self.engine.is_thinking THEN
                IF _get_engine_go_params(self) = NoParams
                THEN [self EXCEPT !.interaction_enabled = FALSE, !.showing_hint_result = FALSE,
                                  !.engine = set_position(@, to_fen(self.board), <<>>),
                                  !.engine_info_label = <<"time and depth are both 0">>]
                ELSE position_and_go([self EXCEPT !.interaction_enabled = FALSE,
                                                  !.showing_hint_result = FALSE],
                                     to_fen(self.board), _get_engine_go_params(self), "move")
            ELSE [self EXCEPT !.interaction_enabled = FALSE]
        ELSE [self EXCEPT !.interaction_enabled = TRUE]
        : self \in {this} })

_cancel_realtime_analysis(this) ==
    Value({
        [self EXCEPT !.engine = IF self._realtime_analysis_active /\ self.engine.is_thinking
                                THEN stop_thinking(@) ELSE @,
                     !.on_bestmove = IF self._realtime_original_on_bestmove # "unset"
                                     THEN self._realtime_original_on_bestmove ELSE @,
                     !._realtime_analysis_active = FALSE,
                     !._realtime_pending = <<>>]
        : self \in {this} })

_disable_realtime_analysis(this) ==
    Value({
        _cancel_realtime_analysis([self EXCEPT !._realtime_analysis_enabled = FALSE])
        : self \in {this} })

\* _try_start_realtime_analysis once the first pending request is taken
start_realtime_analysis(this, request) ==
    Value({
        IF _get_engine_go_params(self) = NoParams THEN self
        ELSE position_and_go(
                 [self EXCEPT !._realtime_analysis_active = TRUE,
                              !._realtime_move_index = request[2],
                              !._realtime_original_on_bestmove = self.on_bestmove,
                              !.on_bestmove = "_on_realtime_bestmove"],
                 request[1], _get_engine_go_params(self), "realtime")
        : self \in {this} })

_try_start_realtime_analysis(this) ==
    Value({
        IF self._suppress_engine_turn THEN self
        ELSE IF ~self._realtime_analysis_enabled THEN self
        ELSE IF self._analysis_mode THEN self
        ELSE IF self.engine.is_thinking \/ self.hint_mode \/ self._realtime_analysis_active THEN self
        ELSE IF self._realtime_pending = <<>> THEN self
        ELSE start_realtime_analysis([self EXCEPT !._realtime_pending = Tail(@)],
                                     Head(self._realtime_pending))
        : self \in {this} })

\* _queue_realtime_analysis once the request is appended
queued_realtime_analysis(this) ==
    Value({
        IF self.engine.is_thinking \/ self.hint_mode \/ self._realtime_analysis_active THEN self
        ELSE _try_start_realtime_analysis(self)
        : self \in {this} })

_queue_realtime_analysis(this) ==
    Value({
        IF self._suppress_engine_turn THEN self
        ELSE IF ~self._realtime_analysis_enabled THEN self
        ELSE IF self._analysis_mode THEN self
        ELSE IF ~self.engine.is_ready THEN self
        ELSE IF self.board.move_history = <<>> THEN self
        ELSE IF /\ self._realtime_pending # <<>>
                /\ self._realtime_pending[Len(self._realtime_pending)][2]
                       = Len(self.board.move_history) - 1
        THEN self
        ELSE queued_realtime_analysis(
                 [self EXCEPT !._realtime_pending =
                      Append(@, <<to_fen(self.board), Len(self.board.move_history) - 1>>)])
        : self \in {this} })

_enable_realtime_analysis(this) ==
    Value({
        IF ~self.engine.is_ready THEN self
        ELSE _queue_realtime_analysis([self EXCEPT !._realtime_analysis_enabled = TRUE,
                                                   !.engine_info_label = <<"realtime analysis on">>])
        : self \in {this} })

_finish_realtime_analysis(this) ==
    Value({
        [self EXCEPT !._realtime_analysis_active = FALSE,
                     !.on_bestmove = IF self._realtime_original_on_bestmove # "unset"
                                     THEN self._realtime_original_on_bestmove ELSE @,
                     !.timers = IF self._realtime_pending # <<>>
                                THEN Append(@, "_try_start_realtime_analysis") ELSE @]
        : self \in {this} })

_on_realtime_bestmove(this, move) ==
    Value({
        IF ~self._realtime_analysis_active THEN self ELSE _finish_realtime_analysis(self)
        : self \in {this} })

\* The part of _prune_analysis_after_current on the realtime analysis
prune_pending(this, max_len) ==
    Value({
        IF self._realtime_analysis_active /\ self._realtime_move_index >= max_len
        THEN _cancel_realtime_analysis(self)
        ELSE self
        : self \in {this} })

_prune_analysis_after_current(this) ==
    Value({
        prune_pending([self EXCEPT !._realtime_pending =
                           SelectSeq(@, LAMBDA request : request[2] < Len(self.board.move_history))],
                      Len(self.board.move_history))
        : self \in {this} })

\* _on_player_move(move), the move made on the board by the BoardWidget
_on_player_move(this) ==
    Value({
        _queue_realtime_analysis(
            _check_engine_turn(
                _check_game_result(
                    [_prune_analysis_after_current(
                         [self EXCEPT !.interaction_enabled = FALSE,
                                      !._suppress_engine_turn = FALSE,
                                      !.redo_stack = <<>>])
                       EXCEPT !.edited_position = FALSE, !.showing_hint_result = FALSE])))
        : self \in {this} })

THREADS_NAME == <<"T", "h", "r", "e", "a", "d", "s">>

set_option(self, name, value) ==
    _send_command(self, <<"s", "e", "t", "o", "p", "t", "i", "o", "n", " ", "n", "a", "m", "e", " ">> \o name \o <<" ", "v", "a", "l", "u", "e", " ">> \o value)

\* _on_engine_ready after the settings are applied.  hint_info_text is not empty
\* while showing_hint_result is set: the engine's moves here are moves parse_move reads
engine_ready_applied(this) ==
    Value({
        IF self.showing_hint_result THEN self
        ELSE _check_engine_turn(
                 [self EXCEPT !.engine_info_label = <<"ready">>,
                              !.engine = new_game(@),
                              !._suppress_engine_turn =
                                  IF self.settings.red_player = "ENGINE"
                                     /\ self.settings.black_player = "ENGINE"
                                  THEN TRUE ELSE @])
        : self \in {this} })

_on_engine_ready(this) ==
    Value({
        IF self._analysis_mode THEN self
        ELSE IF self._suppress_engine_turn THEN self
        ELSE engine_ready_applied(
                 [self EXCEPT !.engine = set_option(@, THREADS_NAME, str(self.settings.threads))])
        : self \in {this} })

_request_hint(this) ==
    Value({
        IF ~self.engine.is_ready THEN self
        ELSE IF self._suppress_engine_turn THEN self
        ELSE IF self.engine.is_thinking THEN self
        ELSE IF _is_game_over(self) /\ ~self.edited_position THEN self
        ELSE IF _get_engine_go_params(self) = NoParams
        THEN [self EXCEPT !.showing_hint_result = FALSE,
                          !.engine = set_position(@, to_fen(self.board), <<>>)]
        ELSE position_and_go([self EXCEPT !.showing_hint_result = FALSE, !.hint_mode = TRUE,
                                          !.interaction_enabled = FALSE],
                             to_fen(self.board), _get_engine_go_params(self), "hint")
        : self \in {this} })

\* The window once _on_engine_move in normal mode has left r: what follows a move
\* made, a move replaced from the candidates and a move forced
engine_move_followed(this, result) ==
    Value({
        IF r.engine_info_label[1] \in {"ready", "replaced"}
        THEN [_queue_realtime_analysis(
                  _check_game_result(
                      [_prune_analysis_after_current(
                           [self EXCEPT !.board = r.board, !.redo_stack = r.redo_stack,
                                        !.engine_info_label = r.engine_info_label])
                         EXCEPT !.edited_position = FALSE, !.showing_hint_result = FALSE]))
                EXCEPT !.timers = Append(@, "_check_engine_turn")]
        ELSE IF r.engine_info_label[1] = "forced"
        THEN [_check_game_result(
                  [self EXCEPT !.board = r.board, !.redo_stack = r.redo_stack,
                               !.engine_info_label = r.engine_info_label,
                               !.edited_position = FALSE])
                EXCEPT !.timers = Append(@, "_check_engine_turn")]
        ELSE [self EXCEPT !.board = r.board, !.redo_stack = r.redo_stack,
                          !.engine_info_label = r.engine_info_label]
        : self \in {this}, r \in {result} })

\* _on_engine_move without the test of hint_mode
on_engine_move_no_hint(this, move) ==
    Value({
        IF self._suppress_engine_turn THEN [self EXCEPT !.interaction_enabled = TRUE]
        ELSE engine_move_followed(self,
                 _on_engine_move([board |-> self.board, redo_stack |-> self.redo_stack,
                                  engine_info_label |-> self.engine_info_label,
                                  _candidate_moves |-> get_candidate_moves(self.engine)], move))
        : self \in {this} })

\* MainWindow._on_engine_move: ignored when the engine was stopped, shown in hint
\* mode, played in normal mode
on_engine_move(this, move) ==
    Value({
        IF self._suppress_engine_turn THEN [self EXCEPT !.interaction_enabled = TRUE]
        ELSE IF self.hint_mode
        THEN [self EXCEPT !.hint_mode = FALSE, !.interaction_enabled = TRUE,
                          !.showing_hint_result = TRUE,
                          !.engine_info_label =
                              IF parse_move(move) # NoneSeq THEN <<"hint", move>> ELSE @]
        ELSE engine_move_followed(self,
                 _on_engine_move([board |-> self.board, redo_stack |-> self.redo_stack,
                                  engine_info_label |-> self.engine_info_label,
                                  _candidate_moves |-> get_candidate_moves(self.engine)], move))
        : self \in {this} })

_resume_engine(this) ==
    Value({
        IF _is_game_over(self) THEN [self EXCEPT !._suppress_engine_turn = FALSE]
        ELSE _check_engine_turn([self EXCEPT !._suppress_engine_turn = FALSE])
        : self \in {this} })

\* _stop_engine; no analysis of the whole game is running
_stop_engine(this) ==
    Value({
        [_cancel_realtime_analysis(
             [self EXCEPT !._suppress_engine_turn = TRUE,
                          !.engine = stop_thinking(@),
                          !.showing_hint_result = IF self.hint_mode THEN FALSE ELSE @,
                          !.hint_mode = FALSE])
           EXCEPT !.interaction_enabled = TRUE]
        : self \in {this} })

\* _edit_board on the window: the engine is stopped and kept from playing, the
\* analyses are cancelled, the board goes into the edit mode
_edit_board(this) ==
    Value({
        [_cancel_realtime_analysis(
             [self EXCEPT !._suppress_engine_turn = TRUE,
                          !.engine = stop_thinking(@),
                          !._analysis_mode = FALSE])
           EXCEPT !.edit_mode = TRUE]
        : self \in {this} })

\* _on_edit_finished(QDialog.Accepted) on the window
edit_accepted(this) ==
    Value({
        [self EXCEPT !.edit_mode = FALSE,
                     !.redo_stack = <<>>,
                     !.edited_position = TRUE,
                     !.engine = new_game(@),
                     !.timers = Append(@, "_check_engine_turn")]
        : self \in {this} })

\* _dispatch_bestmove(move): the handler on_bestmove names is called
_dispatch_bestmove(this, move) ==
    Value({
        IF self.on_bestmove = "_on_engine_move" THEN on_engine_move(self, move)
        ELSE IF self.on_bestmove = "_on_realtime_bestmove" THEN _on_realtime_bestmove(self, move)
        ELSE self
        : self \in {this} })


-----------------------------------------------------------------------------
(* The board editor opened from the game, used and closed                   *)

\* BoardWidget.mousePressEvent outside the edit mode makes the move clicked and
\* emits move_made: _on_player_move
ClickMove ==
    /\ ~edit_mode
    /\ interaction_enabled
    /\ Len(move_history) < MaxEditorMoves
    /\ \E move \in EditorMoves : \E r \in {make_move(obj, move)} :
           /\ r.ret
           /\ AppBecomes(_on_player_move([app EXCEPT !.board = r.self]))
    /\ lastOp' = "_on_player_move"
    /\ ret' = <<"None">>
    /\ UNCHANGED beside_app

\* MainWindow._edit_board, from the game
EditBoard ==
    /\ ~edit_mode
    /\ EditorSessions < MaxEditorSessions
    /\ AppBecomes(_edit_board(app))
    /\ _saved_board' = board
    /\ _saved_side' = current_side
    /\ edit_piece' = None
    /\ red_first' = (current_side = RED)
    /\ opened' = obj
    /\ lastOp' = "_edit_board"
    /\ ret' = <<"None">>
    /\ UNCHANGED <<bestmove, reported, stdout, searching>>

\* BoardEditorDialog._select_piece: a button is checked or unchecked
SelectPiece ==
    /\ edit_mode
    /\ \E piece \in EditorPieces \cup {None} : edit_piece' = piece
    /\ edit_piece' # edit_piece
    /\ UNCHANGED <<game, lastOp, ret, window_but_editor>>
    /\ UNCHANGED <<edit_mode, red_first, _saved_board, _saved_side, opened>>

\* BoardWidget.mousePressEvent in the edit mode: the left button places edit_piece,
\* the right button removes
ClickSquare ==
    /\ edit_mode
    /\ \E square \in EditorSquares : \E button \in {"LeftButton", "RightButton"} :
           Becomes(set_piece(obj, square[1], square[2],
                             IF button = "LeftButton" THEN edit_piece ELSE None))
    /\ lastOp' = "set_piece"
    /\ ret' = <<"None">>
    /\ UNCHANGED <<window_but_editor, editor>>

ClearBoard ==
    /\ edit_mode
    /\ Becomes(_clear_board(obj))
    /\ lastOp' = "_clear_board"
    /\ ret' = <<"None">>
    /\ UNCHANGED <<window_but_editor, editor>>

ResetBoard ==
    /\ edit_mode
    /\ Becomes(_reset_board(obj))
    /\ red_first' = TRUE
    /\ lastOp' = "_reset_board"
    /\ ret' = <<"None">>
    /\ UNCHANGED <<window_but_editor, edit_mode, edit_piece, _saved_board, _saved_side, opened>>

\* BoardEditorDialog._import_fen with the text typed
ImportFen ==
    /\ edit_mode
    /\ \E text \in EditorFens :
           IF strip(text) # <<>>
           THEN \E r \in {load_fen(obj, strip(text))} :
                    /\ Becomes(r.self)
                    /\ red_first' = IF r.ret THEN r.self.current_side = RED ELSE red_first
           ELSE UNCHANGED <<game, red_first>>
    /\ lastOp' = "_import_fen"
    /\ ret' = <<"None">>
    /\ UNCHANGED <<window_but_editor, edit_mode, edit_piece, _saved_board, _saved_side, opened>>

\* The radio buttons of the side to move
CheckSide ==
    /\ edit_mode
    /\ red_first' = ~red_first
    /\ UNCHANGED <<game, lastOp, ret, window_but_editor>>
    /\ UNCHANGED <<edit_mode, edit_piece, _saved_board, _saved_side, opened>>

\* The Ok button: _confirm, then _on_edit_finished(QDialog.Accepted)
Confirm ==
    /\ edit_mode
    /\ AppBecomes(edit_accepted([app EXCEPT !.board = _confirm(obj, red_first)]))
    /\ edit_piece' = None
    /\ lastOp' = "accept"
    /\ ret' = <<"None">>
    /\ UNCHANGED <<bestmove, reported, stdout, searching, red_first, _saved_board, _saved_side, opened>>

\* The Cancel button: reject, then _on_edit_finished(QDialog.Rejected)
Cancel ==
    /\ edit_mode
    /\ Becomes(edit_rejected(obj, _saved_board, _saved_side))
    /\ edit_mode' = FALSE
    /\ edit_piece' = None
    /\ lastOp' = "reject"
    /\ ret' = <<"None">>
    /\ UNCHANGED <<window_but_editor, red_first, _saved_board, _saved_side, opened>>

NextEditor ==
    \/ ClickMove \/ EditBoard \/ SelectPiece \/ ClickSquare \/ ClearBoard \/ ResetBoard
    \/ ImportFen \/ CheckSide \/ Confirm \/ Cancel

SpecEditor == Init /\ [][NextEditor]_vars

\* C39: when the board editor has been cancelled, the game is exactly as it was when
\* the editor was opened: grid, side to move, move_history, position_history,
\* check_history and clocks
C39_CancelRestoresGame == lastOp = "reject" => obj = opened


-----------------------------------------------------------------------------
(* A game in the window: the settings are loaded and the engine started,    *)
(* the human moves, asks for hints, stops and resumes the engine and turns  *)
(* the realtime analysis on and off; the engine process answers, the reader *)
(* thread parses, the main thread dispatches signals and timers.  These are *)
(* the steps of the games specified below                                   *)

\* Who plays Red and Black
PlayerSettings == {<<"ENGINE", "HUMAN">>}

\* "3k5/9/9/9/9/9/9/9/9/R4K3 w - - 0 1": a Chariot and the two Generals, Red to move
FEN_SESSION == <<"3", "k", "5", "/", "9", "/", "9", "/", "9", "/", "9", "/", "9", "/", "9", "/", "9", "/", "9", "/", "R", "4", "K", "3", " ", "w", " ", "-", " ", "-", " ", "0", " ", "1">>

\* The moves the human clicks: a step of the Black General and of the Chariot
SessionMoves == {<<"d", "9", "d", "8">>, <<"a", "0", "a", "1">>}

\* The lines that end a search: a move of Red and a move of Black
SessionBestmoveLines == {<<"b", "e", "s", "t", "m", "o", "v", "e", " ", "a", "0", "a", "1">>, <<"b", "e", "s", "t", "m", "o", "v", "e", " ", "d", "9", "d", "8">>}

\* The moves of a game
MaxSessionMoves == 3

\* The engine process answers while the game is shorter than the bound
Answering == Len(move_history) < MaxSessionMoves

\* The position of the game is set up in the window just opened
LoadFenSession ==
    /\ lastOp = "__init__"
    /\ \E r \in {load_fen(obj, FEN_SESSION)} :
           /\ Becomes(r.self)
           /\ ret' = <<"bool", r.ret>>
    /\ lastOp' = "load_fen"
    /\ UNCHANGED window

\* _show_settings accepted with the players chosen and a new engine path:
\* _start_engine, then _check_engine_turn
ShowSettingsOf(choices) ==
    /\ process = "None"
    /\ lastOp = "load_fen"
    /\ \E players \in choices :
           AppBecomes(_check_engine_turn(
               [app EXCEPT !.settings.red_player = players[1],
                           !.settings.black_player = players[2],
                           !.engine = start(stop(@)),
                           !.engine_info_label = <<"initializing">>]))
    /\ lastOp' = "_show_settings"
    /\ ret' = <<"None">>
    /\ UNCHANGED beside_app

ShowSettings == ShowSettingsOf(PlayerSettings)

\* BoardWidget.mousePressEvent makes the move clicked and emits move_made.
\* The human acts when the engine process has read what was written to it
HumanMove ==
    /\ interaction_enabled
    /\ ~edit_mode
    /\ stdin = <<>>
    /\ Len(move_history) < MaxSessionMoves
    /\ \E move \in SessionMoves : \E r \in {make_move(obj, move)} :
           /\ r.ret
           /\ AppBecomes(_on_player_move([app EXCEPT !.board = r.self]))
    /\ lastOp' = "_on_player_move"
    /\ ret' = <<"None">>
    /\ UNCHANGED beside_app

\* The hint button, while the engine is ready and not thinking and no hint is shown
RequestHint ==
    /\ process # "None"
    /\ stdin = <<>>
    /\ is_ready /\ ~is_thinking
    /\ ~hint_mode /\ ~showing_hint_result
    /\ AppBecomes(_request_hint(app))
    /\ lastOp' = "_request_hint"
    /\ ret' = <<"None">>
    /\ UNCHANGED beside_app

\* The stop button, while the engine is thinking and not stopped
StopEngine ==
    /\ process # "None"
    /\ stdin = <<>>
    /\ is_thinking
    /\ ~_suppress_engine_turn
    /\ AppBecomes(_stop_engine(app))
    /\ lastOp' = "_stop_engine"
    /\ ret' = <<"None">>
    /\ UNCHANGED beside_app

\* The start button, while the engine is stopped and not thinking
ResumeEngine ==
    /\ process # "None"
    /\ stdin = <<>>
    /\ ~is_thinking
    /\ _suppress_engine_turn
    /\ AppBecomes(_resume_engine(app))
    /\ lastOp' = "_resume_engine"
    /\ ret' = <<"None">>
    /\ UNCHANGED beside_app

\* _show_analysis_dialog accepted with the realtime analysis selected, before the
\* first move
EnableRealtime ==
    /\ process # "None"
    /\ stdin = <<>>
    /\ ~_realtime_analysis_enabled
    /\ move_history = <<>>
    /\ AppBecomes(_enable_realtime_analysis(app))
    /\ lastOp' = "_enable_realtime_analysis"
    /\ ret' = <<"None">>
    /\ UNCHANGED beside_app

\* _show_analysis_dialog accepted with the realtime analysis not selected while the
\* search of a realtime analysis runs: _disable_realtime_analysis, then _start_analysis,
\* which returns at once because the engine is thinking
DisableRealtime ==
    /\ process # "None"
    /\ stdin = <<>>
    /\ _realtime_analysis_enabled
    /\ _realtime_analysis_active /\ is_thinking
    /\ AppBecomes(_disable_realtime_analysis(app))
    /\ lastOp' = "_disable_realtime_analysis"
    /\ ret' = <<"None">>
    /\ UNCHANGED beside_app

\* Whether the i-th timer that waits may be the next to fire: the timers of
\* _check_engine_turn run 100 ms and those of _try_start_realtime_analysis 50 ms, so
\* that a timer fires before the timers set later and before those set earlier
\* that run longer
Due(i) ==
    \A j \in 1..(i - 1) :
        timers[j] = "_check_engine_turn" /\ timers[i] = "_try_start_realtime_analysis"

\* A timer of QTimer.singleShot fires
FireTimer ==
    /\ \E i \in {j \in 1..Len(timers) : Due(j)} :
           \E rest_ \in {[app EXCEPT !.timers = SubSeq(@, 1, i - 1) \o SubSeq(@, i + 1, Len(@))]} :
               IF timers[i] = "_check_engine_turn"
               THEN AppBecomes(_check_engine_turn(rest_))
               ELSE AppBecomes(_try_start_realtime_analysis(rest_))
    /\ lastOp' = "singleShot"
    /\ ret' = <<"None">>
    /\ UNCHANGED beside_app

\* The main thread dispatches the first signal: _dispatch_ready, _dispatch_info
\* or _dispatch_bestmove
DispatchSignal ==
    /\ signals # <<>>
    /\ \E rest_ \in {[app EXCEPT !.engine.signals = Tail(@)]} :
           IF Head(signals)[1] = "ready_signal"
           THEN /\ AppBecomes(_on_engine_ready(rest_))
                /\ lastOp' = "_dispatch_ready"
                /\ UNCHANGED bestmove
           ELSE IF Head(signals)[1] = "bestmove_signal"
           THEN /\ AppBecomes(_dispatch_bestmove([rest_ EXCEPT !.asked = Tail(@)],
                                                 Head(signals)[2]))
                /\ lastOp' = "_dispatch_bestmove"
                /\ bestmove' = Head(signals)[2]
           ELSE /\ AppBecomes(rest_)
                /\ lastOp' = "_dispatch_info"
                /\ UNCHANGED bestmove
    /\ ret' = <<"None">>
    /\ UNCHANGED <<reported, stdout, searching, edit_piece, red_first,
                   _saved_board, _saved_side, opened>>

ProcessReadsSession == ProcessReadsAnswering(SessionBestmoveLines, Answering)

ProcessAnswers == Answering /\ ProcessWritesOneOf(SessionBestmoveLines)

\* The steps the fairness conditions are about, each told by what it takes off:
\* no other step of the program shortens stdin, stdout, signals or timers, and a
\* search ends only in the engine process

\* The step of ProcessReadsSession
CommandsRead ==
    /\ process # "None"
    /\ stdin # <<>>
    /\ stdin' = SubSeq(stdin, Taken(stdin) + 1, Len(stdin))

\* The step of the engine process that ends a search
SearchEnded == Answering /\ searching /\ searching' = FALSE

\* The step of ReadOutput
LineParsed ==
    /\ process # "None"
    /\ stdout # <<>>
    /\ Len(signals) < MaxSignals
    /\ stdout' = Tail(stdout)

\* The step of DispatchSignal
Delivered == signals # <<>> /\ signals' = Tail(signals)

\* The step of FireTimer
Fired ==
    \E i \in {j \in 1..Len(timers) : Due(j)} : timers' = SubSeq(timers, 1, i - 1) \o SubSeq(timers, i + 1, Len(timers))

\* The engine process and the reader thread run, the event loop of the main thread
\* delivers the signals that wait and fires the timers that wait.  Nothing is
\* assumed of the human
FairEventLoop ==
    /\ WF_stdin(CommandsRead) /\ WF_searching(SearchEnded) /\ WF_stdout(LineParsed)
    /\ WF_signals(Delivered) /\ WF_timers(Fired)


-----------------------------------------------------------------------------
(* A game with the hint, stop and start buttons and without the realtime    *)
(* analysis                                                                 *)

NextHint ==
    \/ LoadFenSession \/ ShowSettings \/ HumanMove \/ RequestHint \/ StopEngine \/ ResumeEngine
    \/ FireTimer \/ DispatchSignal
    \/ ProcessReadsSession \/ ProcessAnswers \/ ReadOutput

SpecHint == Init /\ [][NextHint]_vars

\* The main thread delivers a bestmove
BestmoveDelivered ==
    /\ signals # <<>>
    /\ Head(signals)[1] = "bestmove_signal"
    /\ signals' = Tail(signals)

\* C36: a bestmove delivered while hint_mode is set or while _suppress_engine_turn is
\* set leaves the board as it was: grid, side to move, move_history,
\* position_history, check_history and clocks
C36_IgnoredBestmoveKeepsBoard ==
    [][BestmoveDelivered /\ (hint_mode \/ _suppress_engine_turn) => UNCHANGED game]_vars

\* The answer to a hint asked after a move of each side has been delivered and is
\* shown, the two moves still on the board
C36_Witness ==
    /\ lastOp = "_dispatch_bestmove"
    /\ showing_hint_result
    /\ ~hint_mode
    /\ engine_info_label = <<"hint", bestmove>>
    /\ Len(move_history) = 2

-----------------------------------------------------------------------------
(* A game with the realtime analysis turned on and off                      *)

NextRealtime ==
    \/ LoadFenSession \/ ShowSettings \/ HumanMove
    \/ EnableRealtime \/ DisableRealtime
    \/ FireTimer \/ DispatchSignal
    \/ ProcessReadsSession \/ ProcessAnswers \/ ReadOutput

SpecRealtime == Init /\ [][NextRealtime]_vars

\* C35: a bestmove that answers a search started for the realtime analysis is not
\* made on the board, also when the analysis was disabled or cancelled before the
\* bestmove is delivered: the step that delivers it leaves grid, side to move,
\* histories and clocks as they were
C35_AnalysisBestmoveNotPlayed ==
    [][BestmoveDelivered /\ asked # <<>> /\ Head(asked) = "realtime" => UNCHANGED game]_vars

-----------------------------------------------------------------------------
(* A game with the realtime analysis turned on and with the stop and start  *)
(* buttons, the engine process, the reader thread and the event loop        *)
(* running                                                                  *)

NextStall ==
    \/ LoadFenSession \/ ShowSettings \/ HumanMove \/ StopEngine \/ ResumeEngine
    \/ EnableRealtime
    \/ FireTimer \/ DispatchSignal
    \/ ProcessReadsSession \/ ProcessAnswers \/ ReadOutput

SpecStall == Init /\ [][NextStall]_vars /\ FairEventLoop


\* It is the engine's turn in a game that is not over and not at the bound of the
\* model, the engine is ready and its play is not suppressed
EngineDue ==
    /\ process # "None"
    /\ is_ready
    /\ ~_suppress_engine_turn
    /\ ~edit_mode
    /\ current_player(app) = "ENGINE"
    /\ ~_is_game_over(app)
    /\ Len(move_history) < MaxSessionMoves

\* C34: whenever it is the engine's turn, the game is not over, the engine is ready
\* and its play is not suppressed, the engine is asked to search and its move is
\* played in the end, also when the human moved while the search of a realtime
\* analysis ran: the turn does not stay with the engine for ever
C34_EngineMovesInTheEnd == EngineDue ~> ~EngineDue


-----------------------------------------------------------------------------
(* The engine is started and no button is pressed: the human only makes    *)
(* moves, MaxSessionMoves at most, so that every game goes on without a     *)
(* user action from some moment on.  The engine process, the reader thread  *)
(* and the event loop of the main thread keep running                       *)

\* All the choices of the players of Red and Black
ReadySettings ==
    {<<"HUMAN", "HUMAN">>, <<"HUMAN", "ENGINE">>, <<"ENGINE", "HUMAN">>, <<"ENGINE", "ENGINE">>}

ShowSettingsReady == ShowSettingsOf(ReadySettings)

NextReady ==
    \/ LoadFenSession \/ ShowSettingsReady \/ HumanMove
    \/ FireTimer \/ DispatchSignal
    \/ ProcessReadsSession \/ ProcessAnswers \/ ReadOutput

SpecReady == Init /\ [][NextReady]_vars /\ FairEventLoop

\* An isready command waits to be read, a readyok line waits to be parsed or a
\* ready_signal waits to be dispatched
ReadyExchange ==
    \/ \E i \in 1..Len(stdin) : stdin[i] = <<"i", "s", "r", "e", "a", "d", "y">>
    \/ \E i \in 1..Len(stdout) : stdout[i] = <<"r", "e", "a", "d", "y", "o", "k">>
    \/ \E i \in 1..Len(signals) : signals[i][1] = "ready_signal"

\* C37: after the engine has answered readyok and with no further user action, the
\* exchange of isready commands and readyok replies comes to an end: from some
\* moment on no isready waits, no readyok waits and no ready_signal waits
C37_ReadyExchangeQuiesces == <>[](~ReadyExchange)

=============================================================================
